---- MODULE Spec2Model ----
(***************************************************************************)
(* Model of the session engine of src/src/main.ts (class WhackGame, the    *)
(* first definition of the file, lines 592-2613): the per-target lifecycle,*)
(* the spawn scheduler, the checkpoint evaluator and the stage transition  *)
(* state machine.                                                          *)
(*                                                                         *)
(* Numbers.  Times are integer milliseconds.  The real-valued ratios of    *)
(* the source (blend, ease, accuracy, PI, skill estimate) are kept in      *)
(* thousandths (Milli = 1.000) and tier progress in thousandths of a       *)
(* percent; every product is divided back with floor division.  Random     *)
(* draws of the source (Math.random) are inputs of the Tick action.        *)
(***************************************************************************)
EXTENDS Integers, Sequences, FiniteSets, TLC

\* ------------------------------------------------------------------ bounds
\* frames between two requestAnimationFrame callbacks, in ms of wall clock;
\* a gap of 200 is a frame delayed beyond the cap of 80
FrameGaps == {40, 80, 200}
\* simulated time explored from an initial state, in ms
HorizonMs == 1600
\* pointer inputs explored from an initial state
PointerInputs == 2
\* pause clicks, resizes, restarts and frames shorter than the cap explored
\* from an initial state
PauseInputs == 2
ResizeInputs == 1
StartInputs == 1
ShortFrames == 1

\* --------------------------------------------------------------- constants
Milli == 10 * 100
START_TIME_MS == 45000
MAX_TIME_MS == 120000
CHECKPOINT_MS == 5000
CELL_COOLDOWN_MS == 900
PROMOTION_PENDING_MS == 1500
STAGE1_PROMOTION_PENDING_MS == 1200
PROMOTION_GRACE_BASE_MS == 3000
STAGE_TRANSITION_NOTICE_MS == 1800
MAX_FRAME_DELTA_MS == 80
MAX_LEVEL == 7

Levels == 1..MAX_LEVEL

STAGE_START_TIME_MS(l) ==
  CASE l = 2 -> 45000 [] l = 3 -> 43000 [] l = 4 -> 41000
    [] l = 5 -> 39000 [] l = 6 -> 37000 [] l = 7 -> 35000
    [] OTHER -> START_TIME_MS

LEVEL_ENTRY_EASE_MS(l) ==
  CASE l = 2 -> 14000 [] l = 3 -> 10000 [] l = 4 -> 8000
    [] l = 5 -> 7000 [] l = 6 -> 6000 [] l = 7 -> 5000
    [] OTHER -> 0

PROMOTION_GRACE_MS_BY_LEVEL(l) ==
  CASE l = 2 -> 8000 [] l = 3 -> 5000 [] OTHER -> PROMOTION_GRACE_BASE_MS

LEVEL_CONFIGS(l) ==
  CASE l = 1 -> [grid |-> 3, concurrentMin |-> 1, concurrentMax |-> 1,
                 spawnIntervalMs |-> 980, holdMinMs |-> 1200, holdMaxMs |-> 1450]
    [] l = 2 -> [grid |-> 4, concurrentMin |-> 1, concurrentMax |-> 2,
                 spawnIntervalMs |-> 820, holdMinMs |-> 930, holdMaxMs |-> 1080]
    [] l = 3 -> [grid |-> 5, concurrentMin |-> 1, concurrentMax |-> 2,
                 spawnIntervalMs |-> 760, holdMinMs |-> 860, holdMaxMs |-> 980]
    [] l = 4 -> [grid |-> 6, concurrentMin |-> 2, concurrentMax |-> 2,
                 spawnIntervalMs |-> 700, holdMinMs |-> 780, holdMaxMs |-> 900]
    [] l = 5 -> [grid |-> 7, concurrentMin |-> 2, concurrentMax |-> 3,
                 spawnIntervalMs |-> 640, holdMinMs |-> 720, holdMaxMs |-> 820]
    [] l = 6 -> [grid |-> 8, concurrentMin |-> 2, concurrentMax |-> 3,
                 spawnIntervalMs |-> 580, holdMinMs |-> 660, holdMaxMs |-> 760]
    [] OTHER -> [grid |-> 9, concurrentMin |-> 3, concurrentMax |-> 3,
                 spawnIntervalMs |-> 520, holdMinMs |-> 620, holdMaxMs |-> 700]

\* Number.MAX_SAFE_INTEGER at level 7 is written as a value no interval reaches
MIN_HITS_TO_LEVEL_UP(l) ==
  CASE l = 1 -> 3 [] l = 2 -> 4 [] l = 3 -> 5 [] l = 4 -> 6
    [] l = 5 -> 7 [] l = 6 -> 8 [] OTHER -> 1000000

\* ----------------------------------------------------------- pure helpers
Min(a, b) == IF a < b THEN a ELSE b
Max(a, b) == IF a > b THEN a ELSE b
Abs(a) == IF a < 0 THEN 0 - a ELSE a

clamp(value, min, max) == Min(max, Max(min, value))

\* lerp(from, to, t) with t in thousandths; the result is in the unit of from/to
lerp(from, to, t) == from + ((to - from) * clamp(t, 0, Milli)) \div Milli

\* lerp of two integers scaled to thousandths, for Math.round(lerp(..))
lerpMilli(from, to, t) == from * Milli + (to - from) * clamp(t, 0, Milli)

\* Math.round of a value given in thousandths (half rounds up)
round(vMilli) == (vMilli + Milli \div 2) \div Milli

\* smoothstep(t) = x*x*(3-2x), thousandths in and out
smoothstep(t) ==
  LET x == clamp(t, 0, Milli)
  IN (((x * x) \div Milli) * (3 * Milli - 2 * x)) \div Milli

\* randomBetween(min, max) for the draw r in 0..Milli (r = Milli stands for
\* the supremum, rounded down to the last integer below max)
randomBetween(min, max, r) ==
  IF r >= Milli THEN Max(min, max - 1) ELSE min + ((max - min) * r) \div Milli

RECURSIVE BitXor(_, _)
BitXor(a, b) ==
  IF a = 0 THEN b
  ELSE IF b = 0 THEN a
  ELSE (((a % 2) + (b % 2)) % 2) + 2 * BitXor(a \div 2, b \div 2)

RECURSIVE SumSeq(_)
SumSeq(s) == IF s = <<>> THEN 0 ELSE Head(s) + SumSeq(Tail(s))

\* ------------------------------------------------------------------ state
VARIABLES
  isRunning, isPaused, isGameOver,
  lastFrameKnown,        \* lastFrameMs # 0: a frame timestamp has been recorded
  elapsedMs, nextCheckpointAtMs, nextSpawnAtMs, slowUntilMs,
  level, score, combo, bestCombo, timeRemainingMs,
  tierProgress,          \* thousandths of a percent, 0..100000
  skillEMA,              \* thousandths, 0..1000
  promotionState, promotionTargetLevel, promotionElapsedMs,
  levelEaseFromLevel, levelEaseElapsedMs, levelEaseDurationMs,
  stageTransitionLockMs, stageFloorLevel, lowPiStreak,
  activeMoles, recentCellIndices, cellCooldownUntil, moleSerial,
  intervalStats,
  cells,                 \* this.cells.length; cell i is row i \div grid, col i % grid
  budget,                \* exploration bound: the inputs and simulated time left
  pendingSinceMs,        \* history: elapsedMs when the pending promotion was requested
  cellLastSpawnAt,       \* history: elapsedMs of the last spawn in each cell, -1 if none
  tickSpawns,            \* history: what each spawn of the last tick saw and chose
  checkpointsDone,       \* history: the evaluateCheckpoint calls of this match
  lastCheckpoint,        \* history: what the last evaluateCheckpoint saw and did
  totalPlays,            \* profile.totalPlays: the matches booked by endGame
  sessionHits,           \* the registerHit calls of this match that struck a target
  timeoutMisses          \* history: the registerMiss(true) calls of this match

vars == <<isRunning, isPaused, isGameOver, lastFrameKnown, elapsedMs,
          nextCheckpointAtMs, nextSpawnAtMs, slowUntilMs, level, score, combo,
          bestCombo, timeRemainingMs, tierProgress, skillEMA, promotionState,
          promotionTargetLevel, promotionElapsedMs, levelEaseFromLevel,
          levelEaseElapsedMs, levelEaseDurationMs, stageTransitionLockMs,
          stageFloorLevel, lowPiStreak, activeMoles, recentCellIndices,
          cellCooldownUntil, moleSerial, intervalStats, cells, budget,
          pendingSinceMs, cellLastSpawnAt, tickSpawns, checkpointsDone,
          lastCheckpoint, totalPlays, sessionHits, timeoutMisses>>

\* null of promotionTargetLevel and levelEaseFromLevel
NoLevel == 0

\* history of a match in which no checkpoint has been evaluated yet
NoCheckpoint ==
  [atMs |-> -1, level |-> 0, hits |-> 0, misses |-> 0, pi |-> 0, targetPi |-> 0,
   skill |-> 0, stateBefore |-> "none", progressBefore |-> 0, progressRated |-> 0,
   streak |-> 0, easing |-> NoLevel, floorLevel |-> 0,
   stateAfterCancel |-> "none", stateAfterRequest |-> "none",
   progressAfterRequest |-> 0, targetAfterRequest |-> NoLevel,
   levelAfter |-> 0, streakAfter |-> 0, progressAfter |-> 0]

\* the fields of the game object as one record, the value the methods transform
State ==
  [isRunning |-> isRunning, isPaused |-> isPaused, isGameOver |-> isGameOver,
   lastFrameKnown |-> lastFrameKnown, elapsedMs |-> elapsedMs,
   nextCheckpointAtMs |-> nextCheckpointAtMs, nextSpawnAtMs |-> nextSpawnAtMs,
   slowUntilMs |-> slowUntilMs, level |-> level, score |-> score,
   combo |-> combo, bestCombo |-> bestCombo, timeRemainingMs |-> timeRemainingMs,
   tierProgress |-> tierProgress, skillEMA |-> skillEMA,
   promotionState |-> promotionState,
   promotionTargetLevel |-> promotionTargetLevel,
   promotionElapsedMs |-> promotionElapsedMs,
   levelEaseFromLevel |-> levelEaseFromLevel,
   levelEaseElapsedMs |-> levelEaseElapsedMs,
   levelEaseDurationMs |-> levelEaseDurationMs,
   stageTransitionLockMs |-> stageTransitionLockMs,
   stageFloorLevel |-> stageFloorLevel, lowPiStreak |-> lowPiStreak,
   activeMoles |-> activeMoles, recentCellIndices |-> recentCellIndices,
   cellCooldownUntil |-> cellCooldownUntil, moleSerial |-> moleSerial,
   intervalStats |-> intervalStats, cells |-> cells,
   budget |-> budget, pendingSinceMs |-> pendingSinceMs,
   cellLastSpawnAt |-> cellLastSpawnAt, tickSpawns |-> tickSpawns,
   checkpointsDone |-> checkpointsDone, lastCheckpoint |-> lastCheckpoint,
   totalPlays |-> totalPlays, sessionHits |-> sessionHits,
   timeoutMisses |-> timeoutMisses]

\* the next state is the record s
Becomes(s) ==
  /\ isRunning' = s.isRunning /\ isPaused' = s.isPaused
  /\ isGameOver' = s.isGameOver /\ lastFrameKnown' = s.lastFrameKnown
  /\ elapsedMs' = s.elapsedMs /\ nextCheckpointAtMs' = s.nextCheckpointAtMs
  /\ nextSpawnAtMs' = s.nextSpawnAtMs /\ slowUntilMs' = s.slowUntilMs
  /\ level' = s.level /\ score' = s.score /\ combo' = s.combo
  /\ bestCombo' = s.bestCombo /\ timeRemainingMs' = s.timeRemainingMs
  /\ tierProgress' = s.tierProgress /\ skillEMA' = s.skillEMA
  /\ promotionState' = s.promotionState
  /\ promotionTargetLevel' = s.promotionTargetLevel
  /\ promotionElapsedMs' = s.promotionElapsedMs
  /\ levelEaseFromLevel' = s.levelEaseFromLevel
  /\ levelEaseElapsedMs' = s.levelEaseElapsedMs
  /\ levelEaseDurationMs' = s.levelEaseDurationMs
  /\ stageTransitionLockMs' = s.stageTransitionLockMs
  /\ stageFloorLevel' = s.stageFloorLevel /\ lowPiStreak' = s.lowPiStreak
  /\ activeMoles' = s.activeMoles /\ recentCellIndices' = s.recentCellIndices
  /\ cellCooldownUntil' = s.cellCooldownUntil /\ moleSerial' = s.moleSerial
  /\ intervalStats' = s.intervalStats /\ cells' = s.cells
  /\ budget' = s.budget /\ pendingSinceMs' = s.pendingSinceMs
  /\ cellLastSpawnAt' = s.cellLastSpawnAt /\ tickSpawns' = s.tickSpawns
  /\ checkpointsDone' = s.checkpointsDone
  /\ lastCheckpoint' = s.lastCheckpoint /\ totalPlays' = s.totalPlays
  /\ sessionHits' = s.sessionHits /\ timeoutMisses' = s.timeoutMisses

\* the current state is the record s
Is(s) ==
  /\ isRunning = s.isRunning
  /\ isPaused = s.isPaused
  /\ isGameOver = s.isGameOver
  /\ lastFrameKnown = s.lastFrameKnown
  /\ elapsedMs = s.elapsedMs
  /\ nextCheckpointAtMs = s.nextCheckpointAtMs
  /\ nextSpawnAtMs = s.nextSpawnAtMs
  /\ slowUntilMs = s.slowUntilMs
  /\ level = s.level
  /\ score = s.score
  /\ combo = s.combo
  /\ bestCombo = s.bestCombo
  /\ timeRemainingMs = s.timeRemainingMs
  /\ tierProgress = s.tierProgress
  /\ skillEMA = s.skillEMA
  /\ promotionState = s.promotionState
  /\ promotionTargetLevel = s.promotionTargetLevel
  /\ promotionElapsedMs = s.promotionElapsedMs
  /\ levelEaseFromLevel = s.levelEaseFromLevel
  /\ levelEaseElapsedMs = s.levelEaseElapsedMs
  /\ levelEaseDurationMs = s.levelEaseDurationMs
  /\ stageTransitionLockMs = s.stageTransitionLockMs
  /\ stageFloorLevel = s.stageFloorLevel
  /\ lowPiStreak = s.lowPiStreak
  /\ activeMoles = s.activeMoles
  /\ recentCellIndices = s.recentCellIndices
  /\ cellCooldownUntil = s.cellCooldownUntil
  /\ moleSerial = s.moleSerial
  /\ intervalStats = s.intervalStats
  /\ cells = s.cells
  /\ budget = s.budget
  /\ pendingSinceMs = s.pendingSinceMs
  /\ cellLastSpawnAt = s.cellLastSpawnAt
  /\ tickSpawns = s.tickSpawns
  /\ checkpointsDone = s.checkpointsDone
  /\ lastCheckpoint = s.lastCheckpoint
  /\ totalPlays = s.totalPlays
  /\ sessionHits = s.sessionHits
  /\ timeoutMisses = s.timeoutMisses

\* ---------------------------------------------------------------- getters
CellSet(s) == 0..(s.cells - 1)

\* 1.35 or 1, in thousandths
getSlowFactor(s) == IF s.elapsedMs < s.slowUntilMs THEN 1350 ELSE Milli

getLevelEntryEaseRatio(s) ==
  IF s.levelEaseFromLevel = NoLevel \/ s.levelEaseDurationMs <= 0
  THEN Milli
  ELSE clamp((s.levelEaseElapsedMs * Milli) \div s.levelEaseDurationMs, 0, Milli)

\* getPendingDurationMs without the shorter window of level 1
getPendingDurationMsFlat(s) == PROMOTION_PENDING_MS

getPendingDurationMs(s) ==
  IF s.level = 1 THEN STAGE1_PROMOTION_PENDING_MS ELSE PROMOTION_PENDING_MS

\* getPromotionGraceDurationMs without the table of the levels
getPromotionGraceDurationMsBase(s) == PROMOTION_GRACE_BASE_MS

getPromotionGraceDurationMs(s) == PROMOTION_GRACE_MS_BY_LEVEL(s.level)

getTargetPiForLevel(l) ==
  CASE l = 1 -> 420 [] l = 2 -> 530 [] l = 3 -> 570 [] l = 4 -> 610
    [] l = 5 -> 650 [] l = 6 -> 690 [] l = 7 -> 720 [] OTHER -> 600

\* blend as it stands after the level 1 curve (lines 1397-1403)
progressBlend(s) ==
  LET p == clamp(s.tierProgress \div 100, 0, Milli)
  IN IF s.level = 1
     THEN IF p < 800 THEN (p * 450) \div Milli
          ELSE 360 + ((p - 800) * 1200) \div Milli
     ELSE p

\* lines 1405-1408
pendingBlended(s, blend) ==
  IF s.promotionState = "pending"
  THEN Max(blend,
           (clamp((s.promotionElapsedMs * Milli) \div getPendingDurationMs(s), 0, Milli)
              * 850) \div Milli)
  ELSE blend

\* lines 1410-1414
graceBlended(s, blend) ==
  IF s.promotionState = "grace"
  THEN Min(blend,
           350 + ((Milli - clamp((s.promotionElapsedMs * Milli)
                                    \div getPromotionGraceDurationMs(s), 0, Milli))
                    * 150) \div Milli)
  ELSE blend

getTierBlendToNext(s) ==
  clamp(graceBlended(s, pendingBlended(s, progressBlend(s))), 0, Milli)

\* a duration of the profile: eased from the previous level's value while the
\* entry easing runs, stretched by factor during grace
easedDuration(easing, grace, from, value, ease, factor) ==
  LET eased == IF easing THEN lerp(from, value, ease) ELSE value
  IN IF grace THEN (eased * factor) \div Milli ELSE eased

\* a concurrency bound of the profile, eased the same way with ease * 0.82
easedCount(easing, from, value, ease) ==
  IF easing THEN round(lerpMilli(from, value, (ease * 820) \div Milli)) ELSE value

\* lines 1380 and 1383-1393
profileOf(grid, spawnIntervalMs, holdMinMs, holdMaxMs, cmin, cmax, grace) ==
  [grid |-> grid, spawnIntervalMs |-> spawnIntervalMs, holdMinMs |-> holdMinMs,
   holdMaxMs |-> holdMaxMs, concurrentMin |-> clamp(cmin, 1, 3),
   concurrentMax |-> clamp(IF grace THEN Max(1, cmax - 1) ELSE cmax,
                           clamp(cmin, 1, 3), 3)]

\* the profile from the two level configurations, the blend, and the easing
profileFrom(s, current, next, blendToNext, easing, entryFrom, ease, grace) ==
  profileOf(
    current.grid,
    easedDuration(easing, grace, entryFrom.spawnIntervalMs,
                  lerp(current.spawnIntervalMs, next.spawnIntervalMs, blendToNext),
                  ease, 1080),
    easedDuration(easing, grace, entryFrom.holdMinMs,
                  lerp(current.holdMinMs, next.holdMinMs, blendToNext), ease, 1120),
    easedDuration(easing, grace, entryFrom.holdMaxMs,
                  lerp(current.holdMaxMs, next.holdMaxMs, blendToNext), ease, 1120),
    easedCount(easing, entryFrom.concurrentMin,
               IF s.level = 1 THEN 1
               ELSE round(lerpMilli(current.concurrentMin, next.concurrentMin,
                                    (blendToNext * 700) \div Milli)),
               ease),
    easedCount(easing, entryFrom.concurrentMax,
               IF s.level = 1 THEN 1
               ELSE round(lerpMilli(current.concurrentMax, next.concurrentMax,
                                    blendToNext)),
               ease),
    grace)

getDifficultyProfile(s) ==
  profileFrom(s,
              LEVEL_CONFIGS(s.level),
              LEVEL_CONFIGS(Min(MAX_LEVEL, s.level + 1)),
              IF s.level = MAX_LEVEL THEN 0 ELSE getTierBlendToNext(s),
              s.levelEaseFromLevel # NoLevel /\ getLevelEntryEaseRatio(s) < Milli,
              LEVEL_CONFIGS(s.levelEaseFromLevel),
              smoothstep(getLevelEntryEaseRatio(s)),
              s.promotionState = "grace")

\* ---------------------------------------------------------- unlocked cells
\* ((row * 73856093) ^ (col * 19349663)) >>> 0; both products stay below 2^31
cellHash(row, col) == BitXor(row * 73856093, col * 19349663)

\* twice the Manhattan distance of a cell from the centre (grid - 1) / 2
cellDistance2(c, grid) ==
  Abs(2 * (c \div grid) - (grid - 1)) + Abs(2 * (c % grid) - (grid - 1))

\* a is sorted before b by the comparator of getUnlockedSpawnCellSet
rankedBefore(a, b, grid) ==
  \/ cellDistance2(a, grid) < cellDistance2(b, grid)
  \/ /\ cellDistance2(a, grid) = cellDistance2(b, grid)
     /\ \/ cellHash(a \div grid, a % grid) < cellHash(b \div grid, b % grid)
        \/ /\ cellHash(a \div grid, a % grid) = cellHash(b \div grid, b % grid)
           /\ a < b

\* the place of every cell in the sorted array, for each grid size
cellRank ==
  [grid \in 3..9 |->
     [c \in 0..(grid * grid - 1) |->
        Cardinality({d \in 0..(grid * grid - 1) : rankedBefore(d, c, grid)})]]

\* ranked.slice(0, n)
rankedSlice(all, grid, n) == {c \in all : cellRank[grid][c] < n}

\* unlockedCount running from the whole board down to the previous one
unlockedCountShrinking(startCells, totalCells, easeRatio) ==
  clamp(round(lerpMilli(totalCells, clamp(startCells, 1, totalCells),
                        smoothstep(easeRatio))),
        1, totalCells)

\* [restricted |-> FALSE] is the null of the source
unlockedCount(startCells, totalCells, easeRatio) ==
  clamp(round(lerpMilli(clamp(startCells, 1, totalCells), totalCells,
                        smoothstep(easeRatio))),
        1, totalCells)

unlockedSetFor(s, fromGrid, currentGrid, easeRatio) ==
  IF currentGrid <= fromGrid \/ easeRatio >= 999
  THEN [restricted |-> FALSE, set |-> {}]
  ELSE [restricted |-> TRUE,
        set |-> rankedSlice(CellSet(s), currentGrid,
                            unlockedCount(fromGrid * fromGrid, s.cells, easeRatio))]

getUnlockedSpawnCellSet(s) ==
  IF \/ s.levelEaseFromLevel = NoLevel
     \/ s.levelEaseDurationMs <= 0
     \/ s.cells = 0
     \/ s.level <= s.levelEaseFromLevel
  THEN [restricted |-> FALSE, set |-> {}]
  ELSE unlockedSetFor(s, LEVEL_CONFIGS(s.levelEaseFromLevel).grid,
                      LEVEL_CONFIGS(s.level).grid, getLevelEntryEaseRatio(s))

\* ------------------------------------------------------------ mole types
MoleTypes == <<"normal", "gold", "bomb", "ice">>

startWeights(l) ==
  CASE l = 1 -> <<94, 5, 1, 0>> [] l = 2 -> <<82, 11, 7, 0>>
    [] l = 3 -> <<78, 12, 9, 1>> [] l = 4 -> <<74, 13, 11, 2>>
    [] l = 5 -> <<71, 14, 12, 3>> [] l = 6 -> <<68, 14, 14, 4>>
    [] l = 7 -> <<66, 14, 15, 5>> [] OTHER -> <<94, 5, 1, 0>>

endWeights(l) ==
  CASE l = 1 -> <<89, 8, 3, 0>> [] l = 2 -> <<76, 13, 10, 1>>
    [] l = 3 -> <<72, 13, 12, 3>> [] l = 4 -> <<68, 14, 14, 4>>
    [] l = 5 -> <<65, 15, 15, 5>> [] l = 6 -> <<62, 15, 17, 6>>
    [] l = 7 -> <<60, 16, 18, 6>> [] OTHER -> <<89, 8, 3, 0>>

\* lines 1442-1445, in thousandths
blendedWeights(start, end, blend) ==
  [i \in 1..4 |-> lerp(start[i] * Milli, end[i] * Milli, blend)]

\* lines 1448-1454
easedWeights(w, easing, safety) ==
  IF easing
  THEN <<w[1] + 8 * safety,
         (w[2] * (Milli - (160 * safety) \div Milli)) \div Milli,
         (w[3] * (Milli - (780 * safety) \div Milli)) \div Milli,
         (w[4] * (Milli - (720 * safety) \div Milli)) \div Milli>>
  ELSE w

\* lines 1456-1460
graceWeights(w, grace) ==
  IF grace
  THEN <<w[1] + 6 * Milli, w[2], (w[3] * 250) \div Milli, (w[4] * 500) \div Milli>>
  ELSE w

\* lines 1461-1464
lowTimeWeights(w, low) ==
  IF low THEN <<w[1], (w[2] * 1120) \div Milli, (w[3] * 1050) \div Milli, w[4]>>
  ELSE w

\* floors that keep all four weights above zero
flooredWeightsAboveZero(w) ==
  <<Max(Milli, w[1]), Max(500, w[2]), Max(200, w[3]), Max(100, w[4])>>

\* lines 1466-1469
flooredWeights(w) ==
  <<Max(Milli, w[1]), Max(500, w[2]), Max(200, w[3]), Max(0, w[4])>>

\* the four weights handed to pickWeightedType, in thousandths
typeWeights(s) ==
  flooredWeights(
    lowTimeWeights(
      graceWeights(
        easedWeights(
          blendedWeights(startWeights(s.level), endWeights(s.level),
                         getTierBlendToNext(s)),
          s.levelEaseFromLevel # NoLevel /\ getLevelEntryEaseRatio(s) < Milli,
          Milli - smoothstep(getLevelEntryEaseRatio(s))),
        s.promotionState = "grace"),
      s.timeRemainingMs <= 9000))

\* pickWeightedType(weights) for the draw r of Math.random, in thousandths
RECURSIVE weightedFrom(_, _, _)
weightedFrom(weights, i, roll) ==
  IF i > Len(weights) THEN Len(weights)
  ELSE IF roll - weights[i] <= 0 THEN i
  ELSE weightedFrom(weights, i + 1, roll - weights[i])

pickWeightedType(weights, r) ==
  MoleTypes[weightedFrom(weights, 1, (r * SumSeq(weights)) \div Milli)]

pickMoleType(s, r) == pickWeightedType(typeWeights(s), r)

\* ------------------------------------------------------- target lifecycle
\* registerMiss leaving the combo as it is
registerMissKeepingCombo(s) ==
  [s EXCEPT !.intervalStats = [@ EXCEPT !.misses = @ + 1]]

registerMiss(s) ==
  [s EXCEPT !.combo = 0,
            !.intervalStats = [@ EXCEPT !.misses = @ + 1]]

\* stepMole with the exit phase forgotten for a target that was not struck
stepMoleWithoutExit(m, deltaMs) ==
  LET e == m.phaseElapsedMs + deltaMs
  IN IF m.phase = "pop" /\ e >= m.popDurationMs
       THEN [m EXCEPT !.phase = "idle", !.phaseElapsedMs = 0]
     ELSE IF m.phase = "idle" /\ e >= m.idleDurationMs
       THEN [m EXCEPT !.phase = "removed", !.phaseElapsedMs = e]
     ELSE IF m.phase = "hit" /\ e >= m.hitDurationMs
       THEN [m EXCEPT !.phase = "retreat", !.phaseElapsedMs = 0]
     ELSE IF m.phase = "retreat" /\ e >= m.retreatDurationMs
       THEN [m EXCEPT !.phase = "removed", !.phaseElapsedMs = e]
     ELSE [m EXCEPT !.phaseElapsedMs = e]

\* stepMole showing a struck target again once its struck phase is over
stepMoleBackToIdle(m, deltaMs) ==
  LET e == m.phaseElapsedMs + deltaMs
  IN IF m.phase = "pop" /\ e >= m.popDurationMs
       THEN [m EXCEPT !.phase = "idle", !.phaseElapsedMs = 0]
     ELSE IF m.phase = "idle" /\ e >= m.idleDurationMs
       THEN [m EXCEPT !.phase = "retreat", !.phaseElapsedMs = 0]
     ELSE IF m.phase = "hit" /\ e >= m.hitDurationMs
       THEN [m EXCEPT !.phase = "idle", !.phaseElapsedMs = 0]
     ELSE IF m.phase = "retreat" /\ e >= m.retreatDurationMs
       THEN [m EXCEPT !.phase = "removed", !.phaseElapsedMs = e]
     ELSE [m EXCEPT !.phaseElapsedMs = e]

\* one iteration of the loop of updateMoles on one mole; "removed" is the splice
stepMole(m, deltaMs) ==
  LET e == m.phaseElapsedMs + deltaMs
  IN IF m.phase = "pop" /\ e >= m.popDurationMs
       THEN [m EXCEPT !.phase = "idle", !.phaseElapsedMs = 0]
     ELSE IF m.phase = "idle" /\ e >= m.idleDurationMs
       THEN [m EXCEPT !.phase = "retreat", !.phaseElapsedMs = 0]
     ELSE IF m.phase = "hit" /\ e >= m.hitDurationMs
       THEN [m EXCEPT !.phase = "retreat", !.phaseElapsedMs = 0]
     ELSE IF m.phase = "retreat" /\ e >= m.retreatDurationMs
       THEN [m EXCEPT !.phase = "removed", !.phaseElapsedMs = e]
     ELSE [m EXCEPT !.phaseElapsedMs = e]

\* timesOut counting the exit of a struck target as well
timesOutStruckToo(m, deltaMs) ==
  \/ m.phase = "idle" /\ m.phaseElapsedMs + deltaMs >= m.idleDurationMs
  \/ m.phase = "hit" /\ m.phaseElapsedMs + deltaMs >= m.hitDurationMs

\* the mole times out in this step: registerMiss(true) is called for it
timesOut(m, deltaMs) ==
  /\ m.phase = "idle"
  /\ m.phaseElapsedMs + deltaMs >= m.idleDurationMs
  /\ ~m.wasHit

RECURSIVE missTimes(_, _)
missTimes(s, n) == IF n = 0 THEN s ELSE missTimes(registerMiss(s), n - 1)

updateMoles(s, deltaMs) ==
  LET stepped == [i \in 1..Len(s.activeMoles) |-> stepMole(s.activeMoles[i], deltaMs)]
      kept == SelectSeq(stepped, LAMBDA m : m.phase # "removed")
      timeouts == Cardinality({i \in 1..Len(s.activeMoles) :
                                 timesOut(s.activeMoles[i], deltaMs)})
  IN [missTimes(s, timeouts) EXCEPT !.activeMoles = kept,
                                    !.timeoutMisses = @ + timeouts]

\* --------------------------------------------------------- spawn scheduler
occupiedCells(s) == {s.activeMoles[i].cellIndex : i \in 1..Len(s.activeMoles)}

\* this.recentCellIndices.slice(-3)
desiredRecentAvoid(s) ==
  LET n == Len(s.recentCellIndices)
  IN {s.recentCellIndices[i] : i \in (Max(1, n - 2))..n}

inUnlocked(unlocked, c) == ~unlocked.restricted \/ c \in unlocked.set

isUnlocked(s, c) == inUnlocked(getUnlockedSpawnCellSet(s), c)

pastCooldown(s, c) == s.elapsedMs >= s.cellCooldownUntil[c]

\* freeCells with the occupancy filter forgotten
freeCellsUnfiltered(s) == CellSet(s)

\* .filter((cell) => !occupied.has(cell.index)), the filter every stage applies
freeCells(s) == {c \in CellSet(s) : c \notin occupiedCells(s)}

\* the five filters of spawnSingleMole, in the order they are tried
stagesOf(s, unlocked, free, open) ==
  << {c \in open : pastCooldown(s, c) /\ c \notin desiredRecentAvoid(s)},
     {c \in open : pastCooldown(s, c)},
     open,
     IF unlocked.restricted THEN {c \in free : pastCooldown(s, c)} ELSE {},
     IF unlocked.restricted THEN free ELSE {} >>

\* stagesFrom with the unlock restriction forgotten by the first three filters
stagesFromAnywhere(s, unlocked, free) == stagesOf(s, unlocked, free, free)

stagesFrom(s, unlocked, free) ==
  stagesOf(s, unlocked, free,
           {c \in free : ~unlocked.restricted \/ c \in unlocked.set})

candidateStages(s) == stagesFrom(s, getUnlockedSpawnCellSet(s), freeCells(s))

RECURSIVE firstNonEmpty(_, _)
firstNonEmpty(stages, i) ==
  IF i > Len(stages) THEN {}
  ELSE IF stages[i] # {} THEN stages[i]
  ELSE firstNonEmpty(stages, i + 1)

spawnCandidates(s) == firstNonEmpty(candidateStages(s), 1)

\* candidates[k] of the candidate array, which is in cell index order
nthCell(set, k) == CHOOSE c \in set : Cardinality({d \in set : d < c}) = k

\* history only: the cells that are unlocked, unoccupied, not among the last
\* three used, and whose last spawn lies CELL_COOLDOWN_MS or more in the past
eligibleByTime(s) ==
  {c \in CellSet(s) :
     /\ isUnlocked(s, c)
     /\ c \notin occupiedCells(s)
     /\ c \notin desiredRecentAvoid(s)
     /\ \/ s.cellLastSpawnAt[c] < 0
        \/ s.elapsedMs >= s.cellLastSpawnAt[c] + CELL_COOLDOWN_MS}

\* idleScale without the lengthening under the slow status
idleScaleUnslowed(s, type) ==
  IF type = "gold" THEN 760 ELSE IF type = "ice" THEN 900 ELSE Milli

idleScale(s, type) ==
  LET base == IF type = "gold" THEN 760 ELSE IF type = "ice" THEN 900 ELSE Milli
  IN IF getSlowFactor(s) > Milli THEN (base * 1200) \div Milli ELSE base

\* lines 1262-1265
withSpawnFloor(s, profile) ==
  IF Len(s.activeMoles) < profile.concurrentMin - 1
  THEN [s EXCEPT !.nextSpawnAtMs = s.elapsedMs] ELSE s

\* lines 1281-1294
newMole(s, profile, rnd, cellIndex, type) ==
  [id |-> s.moleSerial, cellIndex |-> cellIndex, type |-> type,
   phase |-> "pop", phaseElapsedMs |-> 0, spawnedAtMs |-> s.elapsedMs,
   popDurationMs |-> randomBetween(120, 170, rnd.dur),
   idleDurationMs |->
     (randomBetween(profile.holdMinMs, profile.holdMaxMs, rnd.dur)
        * idleScale(s, type)) \div Milli,
   hitDurationMs |-> randomBetween(130, 180, rnd.dur),
   retreatDurationMs |-> randomBetween(100, 150, rnd.dur),
   wasHit |-> FALSE]

\* lines 1299-1302
pushRecent(pushed) == IF Len(pushed) > 6 THEN Tail(pushed) ELSE pushed

\* history only: what the scheduler saw when it chose cellIndex in state s
spawnSeen(s, profile, rnd, mole, scheduledAtMs) ==
  [cellIndex |-> mole.cellIndex,
   type |-> mole.type,
   slowed |-> s.elapsedMs < s.slowUntilMs,
   holdMs |-> randomBetween(profile.holdMinMs, profile.holdMaxMs, rnd.dur),
   idleDurationMs |-> mole.idleDurationMs,
   eligible |-> candidateStages(s)[1],
   eligibleByTime |-> eligibleByTime(s),
   occupied |-> occupiedCells(s),
   activeBefore |-> Len(s.activeMoles),
   concurrentMax |-> profile.concurrentMax,
   concurrentMin |-> profile.concurrentMin,
   nextSpawnAtMs |-> scheduledAtMs,
   level |-> s.level,
   weights |-> typeWeights(s),
   unlocked |-> getUnlockedSpawnCellSet(s)]

\* lines 1296-1302
placeMole(s, mole, seen) ==
  [s EXCEPT
     !.moleSerial = @ + 1,
     !.activeMoles = Append(@, mole),
     !.cellCooldownUntil[mole.cellIndex] = s.elapsedMs + CELL_COOLDOWN_MS,
     !.recentCellIndices = pushRecent(Append(@, mole.cellIndex)),
     !.cellLastSpawnAt[mole.cellIndex] = s.elapsedMs,
     !.tickSpawns = Append(@, seen)]

\* lines 1262-1303: before is the state the candidates were computed in, s
\* the state after the floor branch
placeSeen(before, s, profile, rnd, mole) ==
  placeMole(s, mole, spawnSeen(before, profile, rnd, mole, s.nextSpawnAtMs))

spawnInto(before, s, profile, rnd, cellIndex) ==
  placeSeen(before, s, profile, rnd,
            newMole(s, profile, rnd, cellIndex, pickMoleType(s, rnd.type)))

spawnFrom(s, profile, rnd, candidates) ==
  IF candidates = {} THEN [didSpawn |-> FALSE, s |-> s]
  ELSE [didSpawn |-> TRUE,
        s |-> spawnInto(s, withSpawnFloor(s, profile), profile, rnd,
                        nthCell(candidates,
                                Min(rnd.cell, Cardinality(candidates) - 1)))]

\* rnd holds the draws of Math.random: cell, type, dur (the four durations)
spawnSingleMole(s, profile, rnd) == spawnFrom(s, profile, rnd, spawnCandidates(s))

\* the while loop of spawnMolesIfNeeded; every spawn of one tick uses the
\* draws of rnd
\* belowCeiling with the comparison off by one
belowCeilingOrAt(s, profile) == Len(s.activeMoles) <= profile.concurrentMax

\* this.activeMoles.length < profile.concurrentMax
belowCeiling(s, profile) == Len(s.activeMoles) < profile.concurrentMax

RECURSIVE spawnLoop(_, _, _)

\* lines 1216-1217
nextInterval(s, profile, rnd) ==
  (randomBetween((profile.spawnIntervalMs * 880) \div Milli,
                 (profile.spawnIntervalMs * 1120) \div Milli, rnd.interval)
     * getSlowFactor(s)) \div Milli

\* lines 1212-1218, r being what spawnSingleMole returned
afterSpawn(r, profile, rnd) ==
  IF ~r.didSpawn
  THEN [r.s EXCEPT !.nextSpawnAtMs = r.s.elapsedMs + 120]
  ELSE spawnLoop([r.s EXCEPT !.nextSpawnAtMs = @ + nextInterval(r.s, profile, rnd)],
                 profile, rnd)

spawnLoop(s, profile, rnd) ==
  IF ~(s.elapsedMs >= s.nextSpawnAtMs /\ belowCeiling(s, profile))
  THEN s
  ELSE afterSpawn(spawnSingleMole(s, profile, rnd), profile, rnd)

spawnMolesIfNeeded(s, rnd) ==
  IF s.cells = 0 THEN s ELSE spawnLoop(s, getDifficultyProfile(s), rnd)

\* ------------------------------------------------------- level and layout
\* refreshCells with a sized canvas: the layout of the current level
refreshCells(s) ==
  LET grid == LEVEL_CONFIGS(s.level).grid
      n == grid * grid
  IN [s EXCEPT !.cells = n,
               !.activeMoles = SelectSeq(@, LAMBDA m : m.cellIndex < n),
               !.recentCellIndices = SelectSeq(@, LAMBDA c : c < n),
               !.cellCooldownUntil = [c \in 0..(n - 1) |-> 0]]

\* history only: no cell of a new layout has seen a spawn
resetSpawnHistory(s) ==
  [s EXCEPT !.cellLastSpawnAt = [c \in 0..(s.cells - 1) |-> -1]]

\* lines 1718-1733
enterLevel(s, clamped, up, easeDurationMs) ==
  [s EXCEPT
     !.level = clamped,
     !.activeMoles = <<>>,
     !.recentCellIndices = <<>>,
     !.nextSpawnAtMs = s.elapsedMs + 180,
     !.levelEaseFromLevel = IF up /\ easeDurationMs > 0 THEN s.level ELSE NoLevel,
     !.levelEaseElapsedMs = 0,
     !.levelEaseDurationMs = IF up /\ easeDurationMs > 0 THEN easeDurationMs ELSE 0,
     !.stageFloorLevel = IF up THEN Max(@, clamped) ELSE @]

\* lines 1738-1744
seedTierProgress(s, up) ==
  [s EXCEPT !.tierProgress = IF up THEN Min(@, 24000) ELSE Max(@, 58000)]

setLevelTo(s, clamped) ==
  IF clamped = s.level THEN s
  ELSE resetSpawnHistory(
         seedTierProgress(
           refreshCells(enterLevel(s, clamped, clamped > s.level,
                                   LEVEL_ENTRY_EASE_MS(clamped))),
           clamped > s.level))

setLevel(s, nextLevel) == setLevelTo(s, clamp(nextLevel, 1, MAX_LEVEL))

\* ------------------------------------------------ stage transition machine
\* startPromotion entering the grace state at once
startPromotionAsGrace(s, nextLevel) ==
  IF s.promotionState # "none" THEN s
  ELSE [s EXCEPT !.promotionState = "grace",
                 !.promotionTargetLevel = clamp(nextLevel, 1, MAX_LEVEL),
                 !.tierProgress = Max(@, 88000),
                 !.promotionElapsedMs = 0,
                 !.pendingSinceMs = s.elapsedMs]

startPromotion(s, nextLevel) ==
  IF s.promotionState # "none" THEN s
  ELSE [s EXCEPT !.promotionState = "pending",
                 !.promotionTargetLevel = clamp(nextLevel, 1, MAX_LEVEL),
                 !.tierProgress = Max(@, 88000),
                 !.promotionElapsedMs = 0,
                 !.pendingSinceMs = s.elapsedMs]

cancelPromotion(s) ==
  IF s.promotionState # "pending" THEN s
  ELSE [s EXCEPT !.promotionState = "none",
                 !.promotionTargetLevel = NoLevel,
                 !.promotionElapsedMs = 0]

\* resetTimeForStageStart with the time bank of a new match for every level
resetTimeToMatchStart(s, targetLevel) ==
  [s EXCEPT !.timeRemainingMs = clamp(START_TIME_MS, 1000, MAX_TIME_MS)]

resetTimeForStageStart(s, targetLevel) ==
  [s EXCEPT !.timeRemainingMs =
              clamp(STAGE_START_TIME_MS(targetLevel), 1000, MAX_TIME_MS)]

beginStageTransitionNotice(s) ==
  [s EXCEPT !.activeMoles = <<>>,
            !.recentCellIndices = <<>>,
            !.nextSpawnAtMs = s.elapsedMs + STAGE_TRANSITION_NOTICE_MS + 180,
            !.stageTransitionLockMs = STAGE_TRANSITION_NOTICE_MS]

\* lines 1499-1508
commitPromotion(s, targetLevel) ==
  beginStageTransitionNotice(
    [resetTimeForStageStart(setLevel(s, targetLevel), targetLevel) EXCEPT
       !.promotionState = "grace", !.promotionElapsedMs = 0])

\* lines 1498-1515, the promotion timer already advanced
afterPromotionTimer(s) ==
  IF s.promotionState = "pending" /\ s.promotionElapsedMs >= getPendingDurationMs(s)
  THEN commitPromotion(s, IF s.promotionTargetLevel = NoLevel THEN s.level + 1
                          ELSE s.promotionTargetLevel)
  ELSE IF s.promotionState = "grace"
          /\ s.promotionElapsedMs >= getPromotionGraceDurationMs(s)
  THEN [s EXCEPT !.promotionState = "none",
                 !.promotionTargetLevel = NoLevel,
                 !.promotionElapsedMs = 0]
  ELSE s

updatePromotionState(s, deltaMs) ==
  IF s.promotionState = "none" THEN s
  ELSE afterPromotionTimer([s EXCEPT !.promotionElapsedMs = @ + deltaMs])

updateStageTransitionLock(s, deltaMs) ==
  IF s.stageTransitionLockMs <= 0 THEN s
  ELSE [s EXCEPT !.stageTransitionLockMs = Max(0, @ - deltaMs)]

updateLevelEntryEase(s, deltaMs) ==
  IF s.levelEaseFromLevel = NoLevel \/ s.levelEaseDurationMs <= 0 THEN s
  ELSE
    LET e == Min(s.levelEaseElapsedMs + deltaMs, s.levelEaseDurationMs)
    IN IF e >= s.levelEaseDurationMs
       THEN [s EXCEPT !.levelEaseFromLevel = NoLevel, !.levelEaseElapsedMs = 0,
                      !.levelEaseDurationMs = 0]
       ELSE [s EXCEPT !.levelEaseElapsedMs = e]

\* ------------------------------------------------------------- checkpoint
\* the performance index of the interval, in thousandths
performanceIndex(s) ==
  LET hits == s.intervalStats.hits
      misses == s.intervalStats.misses
      attempts == hits + misses
      accuracy == IF attempts > 0 THEN (hits * Milli) \div attempts ELSE 0
      avgReactionMs == IF s.intervalStats.reactionCount # 0
                       THEN s.intervalStats.reactionTotalMs
                              \div s.intervalStats.reactionCount
                       ELSE 900
      speed == clamp(Milli - (avgReactionMs * Milli) \div 900, 0, Milli)
      comboMetric == clamp((s.combo * Milli) \div 20, 0, Milli)
  IN (450 * accuracy + 350 * speed + 200 * comboMetric) \div Milli

\* progressDelta without the passive ramp and the hit momentum
progressDeltaByskillOnly(s, pi, skill, targetPi) ==
  IF s.intervalStats.hits + s.intervalStats.misses = 0 THEN -2000
  ELSE clamp((skill - targetPi) * (IF s.level = 1 THEN 22 ELSE 32), -14000, 16000)

\* progressDelta rating an interval without attempts like any other
progressDeltaRatingIdle(s, pi, skill, targetPi) ==
  LET hits == s.intervalStats.hits
      misses == s.intervalStats.misses
      passiveRamp == IF s.level = 1 THEN (IF pi >= 340 THEN 2500 ELSE 1100) ELSE 800
      performanceDelta == (skill - targetPi) * (IF s.level = 1 THEN 22 ELSE 32)
      hitMomentum == clamp((hits - misses) * (IF s.level = 1 THEN 1400 ELSE 1100),
                           -8000, 10000)
      delta0 == clamp(passiveRamp + performanceDelta + hitMomentum, -14000, 16000)
  IN IF s.promotionState = "pending" THEN (delta0 * 450) \div Milli ELSE delta0

\* lines 1617-1627, in thousandths of a percent
progressDelta(s, pi, skill, targetPi) ==
  LET hits == s.intervalStats.hits
      misses == s.intervalStats.misses
      passiveRamp == IF s.level = 1 THEN (IF pi >= 340 THEN 2500 ELSE 1100) ELSE 800
      performanceDelta == (skill - targetPi) * (IF s.level = 1 THEN 22 ELSE 32)
      hitMomentum == clamp((hits - misses) * (IF s.level = 1 THEN 1400 ELSE 1100),
                           -8000, 10000)
      delta0 == IF hits + misses = 0 THEN -2000
                ELSE clamp(passiveRamp + performanceDelta + hitMomentum, -14000, 16000)
  IN IF s.promotionState = "pending" THEN (delta0 * 450) \div Milli ELSE delta0

\* lines 1630-1638
checkpointBonusMs(s, pi) ==
  (IF pi >= 880 THEN 5000 ELSE IF pi >= 750 THEN 3000 ELSE 0)
    + (IF s.intervalStats.hits > 0 /\ s.intervalStats.misses = 0 THEN 1000 ELSE 0)

\* rated without the clamp of tier progress
ratedUnclamped(s, pi, skill, delta, bonusMs) ==
  [s EXCEPT
     !.skillEMA = skill,
     !.tierProgress = @ + delta,
     !.timeRemainingMs = IF bonusMs > 0 THEN Min(MAX_TIME_MS, @ + bonusMs) ELSE @,
     !.lowPiStreak = IF pi < 400 THEN @ + 1 ELSE 0]

\* lines 1615-1648
rated(s, pi, skill, delta, bonusMs) ==
  [s EXCEPT
     !.skillEMA = skill,
     !.tierProgress = clamp(@ + delta, 0, 100000),
     !.timeRemainingMs = IF bonusMs > 0 THEN Min(MAX_TIME_MS, @ + bonusMs) ELSE @,
     !.lowPiStreak = IF pi < 400 THEN @ + 1 ELSE 0]

\* cancelIfSlumping without the exemption of level 1
cancelIfSlumpingAtAnyLevel(s, targetPi) ==
  IF /\ s.promotionState = "pending"
     /\ s.skillEMA < targetPi - 80
     /\ s.intervalStats.misses > s.intervalStats.hits
  THEN cancelPromotion(s) ELSE s

\* lines 1650-1657
cancelIfSlumping(s, targetPi) ==
  IF /\ s.promotionState = "pending"
     /\ s.level > 1
     /\ s.skillEMA < targetPi - 80
     /\ s.intervalStats.misses > s.intervalStats.hits
  THEN cancelPromotion(s) ELSE s

\* promoteIfReady judging the highest level by the rules of the one below it
promoteIfReadyAtAnyLevel(s, targetPi) ==
  IF /\ s.promotionState = "none"
     /\ s.tierProgress >= (IF s.level = 1 THEN 66000 ELSE 80000)
     /\ s.skillEMA >= (IF s.level = 1 THEN targetPi - 20 ELSE targetPi + 50)
     /\ s.intervalStats.hits
          >= (IF s.level = 1 THEN 1
              ELSE Max(2, MIN_HITS_TO_LEVEL_UP(Min(s.level, MAX_LEVEL - 1)) - 1))
  THEN startPromotion(s, s.level + 1) ELSE s

\* promoteIfReady with the level-1 progress threshold at every level
promoteIfReadyAtTwoThirds(s, targetPi) ==
  IF /\ s.promotionState = "none"
     /\ s.level < MAX_LEVEL
     /\ s.tierProgress >= 66000
     /\ s.skillEMA >= (IF s.level = 1 THEN targetPi - 20 ELSE targetPi + 50)
     /\ s.intervalStats.hits
          >= (IF s.level = 1 THEN 1 ELSE Max(2, MIN_HITS_TO_LEVEL_UP(s.level) - 1))
  THEN startPromotion(s, s.level + 1) ELSE s

\* lines 1659-1670
promoteIfReady(s, targetPi) ==
  IF /\ s.promotionState = "none"
     /\ s.level < MAX_LEVEL
     /\ s.tierProgress >= (IF s.level = 1 THEN 66000 ELSE 80000)
     /\ s.skillEMA >= (IF s.level = 1 THEN targetPi - 20 ELSE targetPi + 50)
     /\ s.intervalStats.hits
          >= (IF s.level = 1 THEN 1 ELSE Max(2, MIN_HITS_TO_LEVEL_UP(s.level) - 1))
  THEN startPromotion(s, s.level + 1) ELSE s

\* demoteIfLagging announcing the lower level with a transition lock
demoteWithNotice(s, targetPi, demotionFloor) ==
  IF /\ s.promotionState = "none"
     /\ s.level > demotionFloor
     /\ s.levelEaseFromLevel = NoLevel
     /\ s.elapsedMs > 25000
     /\ s.lowPiStreak >= 4
     /\ s.skillEMA <= targetPi - 220
     /\ s.tierProgress <= 16000
  THEN [setLevel(s, Max(demotionFloor, s.level - 1)) EXCEPT
          !.lowPiStreak = 0, !.tierProgress = 60000,
          !.stageTransitionLockMs = STAGE_TRANSITION_NOTICE_MS]
  ELSE s

\* demoteIfLagging after three low checkpoints in a row
demoteIfLaggingAfterThree(s, targetPi, demotionFloor) ==
  IF /\ s.promotionState = "none"
     /\ s.level > demotionFloor
     /\ s.levelEaseFromLevel = NoLevel
     /\ s.elapsedMs > 25000
     /\ s.lowPiStreak >= 3
     /\ s.skillEMA <= targetPi - 220
     /\ s.tierProgress <= 16000
  THEN [setLevel(s, Max(demotionFloor, s.level - 1)) EXCEPT
          !.lowPiStreak = 0, !.tierProgress = 60000]
  ELSE s

\* demoteIfLagging with a demotion floor of 1 whatever level was reached
demoteIfLaggingToLevelOne(s, targetPi, demotionFloor) ==
  IF /\ s.promotionState = "none"
     /\ s.level > 1
     /\ s.levelEaseFromLevel = NoLevel
     /\ s.elapsedMs > 25000
     /\ s.lowPiStreak >= 4
     /\ s.skillEMA <= targetPi - 220
     /\ s.tierProgress <= 16000
  THEN [setLevel(s, Max(1, s.level - 1)) EXCEPT
          !.lowPiStreak = 0, !.tierProgress = 60000]
  ELSE s

\* lines 1672-1686
demoteIfLagging(s, targetPi, demotionFloor) ==
  IF /\ s.promotionState = "none"
     /\ s.level > demotionFloor
     /\ s.levelEaseFromLevel = NoLevel
     /\ s.elapsedMs > 25000
     /\ s.lowPiStreak >= 4
     /\ s.skillEMA <= targetPi - 220
     /\ s.tierProgress <= 16000
  THEN [setLevel(s, Max(demotionFloor, s.level - 1)) EXCEPT
          !.lowPiStreak = 0, !.tierProgress = 60000]
  ELSE s

\* line 1697, and the count of evaluations (history)
closeInterval(s) ==
  [s EXCEPT !.intervalStats =
              [hits |-> 0, misses |-> 0, reactionTotalMs |-> 0, reactionCount |-> 0],
            !.checkpointsDone = @ + 1]

\* history only: the interval that before closes, its rating pi, and the
\* state r that the rating of lines 1615-1648 made of it
noteRated(before, r, pi, targetPi) ==
  [r EXCEPT !.lastCheckpoint =
     [atMs |-> before.elapsedMs, level |-> before.level,
      hits |-> before.intervalStats.hits, misses |-> before.intervalStats.misses,
      pi |-> pi, targetPi |-> targetPi, skill |-> r.skillEMA,
      stateBefore |-> before.promotionState,
      progressBefore |-> before.tierProgress, progressRated |-> r.tierProgress,
      streak |-> r.lowPiStreak, easing |-> before.levelEaseFromLevel,
      floorLevel |-> IF before.stageFloorLevel >= 2 THEN 2 ELSE 1,
      stateAfterCancel |-> r.promotionState,
      stateAfterRequest |-> r.promotionState,
      progressAfterRequest |-> r.tierProgress,
      targetAfterRequest |-> r.promotionTargetLevel,
      levelAfter |-> r.level, streakAfter |-> r.lowPiStreak,
      progressAfter |-> r.tierProgress]]

\* history only: the transition state after the cancellation of lines 1650-1657
noteCancel(s) ==
  [s EXCEPT !.lastCheckpoint.stateAfterCancel = s.promotionState]

\* history only: the state after the promotion request of lines 1659-1670
noteRequest(s) ==
  [s EXCEPT !.lastCheckpoint.stateAfterRequest = s.promotionState,
            !.lastCheckpoint.progressAfterRequest = s.tierProgress,
            !.lastCheckpoint.targetAfterRequest = s.promotionTargetLevel]

\* history only: the level, streak and progress the checkpoint leaves
noteClosed(s) ==
  [s EXCEPT !.lastCheckpoint.levelAfter = s.level,
            !.lastCheckpoint.streakAfter = s.lowPiStreak,
            !.lastCheckpoint.progressAfter = s.tierProgress]

\* the statements after the rating; targetPi is that of the level at entry
afterRating(s, targetPi) ==
  closeInterval(
    noteClosed(
      demoteIfLagging(
        noteRequest(promoteIfReady(noteCancel(cancelIfSlumping(s, targetPi)),
                                   targetPi)),
        targetPi, IF s.stageFloorLevel >= 2 THEN 2 ELSE 1)))

evaluateWith(s, pi, skill, targetPi) ==
  afterRating(noteRated(s,
                        rated(s, pi, skill, progressDelta(s, pi, skill, targetPi),
                              checkpointBonusMs(s, pi)),
                        pi, targetPi),
              targetPi)

evaluateAt(s, pi) ==
  evaluateWith(s, pi, lerp(s.skillEMA, pi, 250), getTargetPiForLevel(s.level))

evaluateCheckpoint(s) == evaluateAt(s, performanceIndex(s))

\* runCheckpointIfNeeded scheduling the next checkpoint from the present time
runCheckpointFromNow(s) ==
  IF s.elapsedMs >= s.nextCheckpointAtMs
  THEN [evaluateCheckpoint(s) EXCEPT !.nextCheckpointAtMs = s.elapsedMs + CHECKPOINT_MS]
  ELSE s

RECURSIVE runCheckpointIfNeeded(_)
runCheckpointIfNeeded(s) ==
  IF s.elapsedMs >= s.nextCheckpointAtMs
  THEN runCheckpointIfNeeded(
         [evaluateCheckpoint(s) EXCEPT !.nextCheckpointAtMs = @ + CHECKPOINT_MS])
  ELSE s

\* ---------------------------------------------------------------- scoring
\* in thousandths
\* getComboMultiplier with each band starting one hit later
getComboMultiplierAbove(c) ==
  IF c > 15 THEN 2000 ELSE IF c > 10 THEN 1500 ELSE IF c > 5 THEN 1200 ELSE Milli

getComboMultiplier(c) ==
  IF c >= 15 THEN 2000 ELSE IF c >= 10 THEN 1500 ELSE IF c >= 5 THEN 1200 ELSE Milli

\* scoreAfterHit without the floor at 0
scoreAfterHitUnfloored(s, scoreDelta, multiplier) ==
  s.score + round(scoreDelta * multiplier)

\* Math.max(0, this.score + Math.round(scoreDelta * multiplier))
scoreAfterHit(s, scoreDelta, multiplier) ==
  Max(0, s.score + round(scoreDelta * multiplier))

\* timeAfterHit without the clamp
timeAfterHitUnclamped(s, timeDeltaMs) == s.timeRemainingMs + timeDeltaMs

\* clamp(this.timeRemainingMs + timeDeltaMs, 0, MAX_TIME_MS)
timeAfterHit(s, timeDeltaMs) == clamp(s.timeRemainingMs + timeDeltaMs, 0, MAX_TIME_MS)

\* registerHit scaling the penalty of a hazard by the multiplier of the combo
\* that the strike ends
registerHitScalingHazard(s, i) ==
  LET mole == s.activeMoles[i]
      scoreDelta == IF mole.type = "gold" THEN 3
                    ELSE IF mole.type = "bomb" THEN -3 ELSE 1
      timeDeltaMs == IF mole.type = "bomb" THEN -2000 ELSE 0
      nextCombo == IF mole.type = "bomb" THEN 0 ELSE s.combo + 1
      multiplier == IF scoreDelta > 0 THEN getComboMultiplier(nextCombo)
                    ELSE getComboMultiplier(s.combo)
      reaction == Max(0, s.elapsedMs - mole.spawnedAtMs)
  IN IF ~(mole.phase = "pop" \/ mole.phase = "idle") THEN s
     ELSE [s EXCEPT
             !.activeMoles[i] = [mole EXCEPT !.phase = "hit", !.phaseElapsedMs = 0,
                                             !.wasHit = TRUE],
             !.slowUntilMs = IF mole.type = "ice" THEN Max(@, s.elapsedMs + 2000) ELSE @,
             !.combo = nextCombo,
             !.bestCombo = Max(@, nextCombo),
             !.score = scoreAfterHit(s, scoreDelta, multiplier),
             !.timeRemainingMs = timeAfterHit(s, timeDeltaMs),
             !.intervalStats = [@ EXCEPT !.hits = @ + 1,
                                         !.reactionTotalMs = @ + reaction,
                                         !.reactionCount = @ + 1],
             !.sessionHits = @ + 1]

\* registerHit leaving a struck hazard out of the statistics of the interval
registerHitSparingHazard(s, i) ==
  LET mole == s.activeMoles[i]
      scoreDelta == IF mole.type = "gold" THEN 3
                    ELSE IF mole.type = "bomb" THEN -3 ELSE 1
      timeDeltaMs == IF mole.type = "bomb" THEN -2000 ELSE 0
      nextCombo == IF mole.type = "bomb" THEN 0 ELSE s.combo + 1
      multiplier == IF scoreDelta > 0 THEN getComboMultiplier(nextCombo) ELSE Milli
      reaction == Max(0, s.elapsedMs - mole.spawnedAtMs)
  IN IF ~(mole.phase = "pop" \/ mole.phase = "idle") THEN s
     ELSE [s EXCEPT
             !.activeMoles[i] = [mole EXCEPT !.phase = "hit", !.phaseElapsedMs = 0,
                                             !.wasHit = TRUE],
             !.slowUntilMs = IF mole.type = "ice" THEN Max(@, s.elapsedMs + 2000) ELSE @,
             !.combo = nextCombo,
             !.bestCombo = Max(@, nextCombo),
             !.score = scoreAfterHit(s, scoreDelta, multiplier),
             !.timeRemainingMs = timeAfterHit(s, timeDeltaMs),
             !.intervalStats = IF mole.type = "bomb" THEN @
                               ELSE [@ EXCEPT !.hits = @ + 1,
                                              !.reactionTotalMs = @ + reaction,
                                              !.reactionCount = @ + 1],
             !.sessionHits = @ + 1]

\* registerHit on the mole at index i of activeMoles
registerHit(s, i) ==
  LET mole == s.activeMoles[i]
      scoreDelta == IF mole.type = "gold" THEN 3
                    ELSE IF mole.type = "bomb" THEN -3 ELSE 1
      timeDeltaMs == IF mole.type = "bomb" THEN -2000 ELSE 0
      nextCombo == IF mole.type = "bomb" THEN 0 ELSE s.combo + 1
      multiplier == IF scoreDelta > 0 THEN getComboMultiplier(nextCombo) ELSE Milli
      reaction == Max(0, s.elapsedMs - mole.spawnedAtMs)
  IN IF ~(mole.phase = "pop" \/ mole.phase = "idle") THEN s
     ELSE [s EXCEPT
             !.activeMoles[i] = [mole EXCEPT !.phase = "hit", !.phaseElapsedMs = 0,
                                             !.wasHit = TRUE],
             !.slowUntilMs = IF mole.type = "ice" THEN Max(@, s.elapsedMs + 2000) ELSE @,
             !.combo = nextCombo,
             !.bestCombo = Max(@, nextCombo),
             !.score = scoreAfterHit(s, scoreDelta, multiplier),
             !.timeRemainingMs = timeAfterHit(s, timeDeltaMs),
             !.intervalStats = [@ EXCEPT !.hits = @ + 1,
                                         !.reactionTotalMs = @ + reaction,
                                         !.reactionCount = @ + 1],
             !.sessionHits = @ + 1]

\* getMoleVisibility(mole) > 0.02
visibleEnough(m) ==
  IF m.phase = "pop" THEN m.phaseElapsedMs * 50 > m.popDurationMs ELSE TRUE

\* findHitMole for a pointer position on the sprite of cell c: the index in
\* activeMoles of the mole found, 0 for null
findHitMole(s, c) ==
  LET found == {i \in 1..Len(s.activeMoles) :
                  /\ s.activeMoles[i].cellIndex = c
                  /\ s.activeMoles[i].phase \in {"pop", "idle"}
                  /\ visibleEnough(s.activeMoles[i])}
  IN IF found = {} THEN 0 ELSE CHOOSE i \in found : \A j \in found : i <= j

\* -------------------------------------------------------------- the frame
endGame(s) ==
  [s EXCEPT !.isRunning = FALSE, !.isPaused = FALSE, !.isGameOver = TRUE,
            !.totalPlays = @ + 1]

\* decayTime of a clock that also runs while a promotion is pending
decayTimeInPending(s, deltaMs) ==
  [s EXCEPT !.timeRemainingMs = Max(0, @ - deltaMs)]

\* lines 1138-1140
decayTime(s, deltaMs) ==
  IF s.promotionState # "pending"
  THEN [s EXCEPT !.timeRemainingMs = Max(0, @ - deltaMs)] ELSE s

\* endIfOutOfTime waiting for a time bank below 0
endIfOutOfTimeBelowZero(s) == IF s.timeRemainingMs < 0 THEN endGame(s) ELSE s

\* lines 1151-1153
endIfOutOfTime(s) == IF s.timeRemainingMs <= 0 THEN endGame(s) ELSE s

\* lines 1142-1153
afterPromotionState(s, deltaMs, rnd) ==
  IF s.stageTransitionLockMs > 0 THEN s
  ELSE endIfOutOfTime(
         runCheckpointIfNeeded(
           spawnMolesIfNeeded(
             updateMoles(updateLevelEntryEase(s, deltaMs), deltaMs), rnd)))

\* afterClock with the return of an open transition lock forgotten
afterClockIgnoringLock(s, deltaMs, rnd) ==
  afterPromotionState(updatePromotionState(decayTime(s, deltaMs), deltaMs),
                      deltaMs, rnd)

\* lines 1133-1153
afterClock(s, deltaMs, rnd) ==
  IF s.stageTransitionLockMs > 0
  THEN updateStageTransitionLock(s, deltaMs)
  ELSE afterPromotionState(updatePromotionState(decayTime(s, deltaMs), deltaMs),
                           deltaMs, rnd)

update(s, deltaMs, rnd) ==
  afterClock([s EXCEPT !.elapsedMs = @ + deltaMs], deltaMs, rnd)

\* the draws of Math.random of one frame: the place of the cell among the
\* candidates, the roll of the type lottery, and the position of the four
\* durations and of the spawn interval inside their bands (thousandths)
Rands ==
  { [cell |-> 0, type |-> 0, dur |-> 0, interval |-> 0],
    [cell |-> 1, type |-> 800, dur |-> Milli, interval |-> Milli],
    [cell |-> 0, type |-> 900, dur |-> Milli, interval |-> 0],
    [cell |-> 1, type |-> 960, dur |-> 0, interval |-> Milli],
    [cell |-> 0, type |-> 999, dur |-> 0, interval |-> 0] }
Rand0 == [cell |-> 0, type |-> 0, dur |-> 0, interval |-> 0]

\* tick that runs update on a paused match too
tickThroughPause(s, gap, rnd) ==
  IF ~s.isRunning THEN s
  ELSE update([s EXCEPT !.lastFrameKnown = TRUE, !.tickSpawns = <<>>],
              IF s.lastFrameKnown THEN Min(MAX_FRAME_DELTA_MS, gap) ELSE 0, rnd)

\* tick(timestamp): gap is timestamp - lastFrameMs
tick(s, gap, rnd) ==
  LET deltaMs == IF s.lastFrameKnown THEN Min(MAX_FRAME_DELTA_MS, gap) ELSE 0
      s1 == [s EXCEPT !.lastFrameKnown = TRUE, !.tickSpawns = <<>>]
  IN IF ~s.isRunning THEN s
     ELSE IF s.isPaused THEN s1
     ELSE update(s1, deltaMs, rnd)

startGame(s) ==
  resetSpawnHistory(refreshCells(
    [s EXCEPT
       !.level = 1, !.score = 0, !.combo = 0, !.bestCombo = 0,
       !.timeRemainingMs = START_TIME_MS,
       !.tierProgress = 0, !.skillEMA = 500,
       !.promotionState = "none", !.promotionTargetLevel = NoLevel,
       !.promotionElapsedMs = 0,
       !.levelEaseFromLevel = NoLevel, !.levelEaseElapsedMs = 0,
       !.levelEaseDurationMs = 0,
       !.stageTransitionLockMs = 0, !.stageFloorLevel = 1,
       !.lowPiStreak = 0, !.elapsedMs = 0,
       !.nextCheckpointAtMs = CHECKPOINT_MS, !.nextSpawnAtMs = 300,
       !.activeMoles = <<>>, !.recentCellIndices = <<>>,
       !.moleSerial = 1, !.slowUntilMs = 0,
       !.intervalStats = [hits |-> 0, misses |-> 0, reactionTotalMs |-> 0,
                          reactionCount |-> 0],
       !.isRunning = TRUE, !.isPaused = FALSE, !.isGameOver = FALSE,
       !.lastFrameKnown = FALSE,
       !.pendingSinceMs = 0,
       !.tickSpawns = <<>>,
       !.checkpointsDone = 0,
       !.lastCheckpoint = NoCheckpoint,
       !.sessionHits = 0,
       !.timeoutMisses = 0]))

\* handlePauseClick without the test of the transition lock
handlePauseClickInLock(s) ==
  IF ~s.isRunning THEN s
  ELSE IF s.isPaused
       THEN [s EXCEPT !.isPaused = FALSE, !.lastFrameKnown = TRUE]
       ELSE [s EXCEPT !.isPaused = TRUE]

handlePauseClick(s) ==
  IF ~s.isRunning \/ s.stageTransitionLockMs > 0 THEN s
  ELSE IF s.isPaused
       THEN [s EXCEPT !.isPaused = FALSE, !.lastFrameKnown = TRUE]
       ELSE [s EXCEPT !.isPaused = TRUE]

\* handlePointerDown of a match that need not be running
handlePointerDownAfterEnd(s, c) ==
  IF s.isPaused \/ s.stageTransitionLockMs > 0 THEN s
  ELSE IF findHitMole(s, c) # 0 THEN registerHit(s, findHitMole(s, c))
  ELSE registerMiss(s)

\* c is the cell whose sprite the pointer is on
handlePointerDown(s, c) ==
  IF ~s.isRunning \/ s.isPaused \/ s.stageTransitionLockMs > 0 THEN s
  ELSE LET target == findHitMole(s, c)
       IN IF target # 0 THEN registerHit(s, target) ELSE registerMiss(s)

\* ---------------------------------------------------------------- actions
\* A behaviour starts with a scripted opening, budget.script: a sequence of
\* segments [policy, untilMs, rnd], each fixing the player's inputs, the frame
\* gap (the cap) and the random draws until elapsedMs reaches untilMs.  While
\* the script lasts, it decides which of the actions below is taken and with
\* which input; once it is exhausted, every action is free within the budget.
scripted == budget.script # <<>>

\* the cells the player's policy points at now (none: let the frame run)
scriptTarget(s) ==
  LET policy == Head(s.budget.script).policy
      wanted(m) ==
        CASE policy = "ace" -> m.type # "bomb"
          [] policy = "late" -> m.type # "bomb" /\ m.phase = "idle"
                                  /\ m.phaseElapsedMs >= 400
          [] policy = "reckless" -> TRUE
          [] policy = "spare" -> m.type # "bomb"
                                   /\ \E i \in 1..Len(s.activeMoles) :
                                         s.activeMoles[i].id < m.id
          [] OTHER -> FALSE
      cs == {c \in CellSet(s) :
               /\ findHitMole(s, c) # 0
               /\ wanted(s.activeMoles[findHitMole(s, c)])}
  IN IF cs = {} THEN {} ELSE {CHOOSE c \in cs : \A d \in cs : c <= d}

\* segments whose end has been reached are dropped; a finished match ends
\* the script
RECURSIVE restOfScript(_, _)
restOfScript(q, s) ==
  IF q = <<>> THEN q
  ELSE IF s.isGameOver \/ s.elapsedMs >= Head(q).untilMs
       THEN restOfScript(Tail(q), s)
       ELSE q

settle(s) == [s EXCEPT !.budget.script = restOfScript(@, s)]

\* the simulated time the next frame adds
frameDelta(gap) ==
  IF isRunning /\ ~isPaused /\ lastFrameKnown THEN Min(MAX_FRAME_DELTA_MS, gap) ELSE 0

\* the cells a free pointer input is drawn from: every cell showing a target
\* and one empty cell
PointerCells(s) ==
  LET used == occupiedCells(s)
      free == CellSet(s) \ used
  IN used \cup (IF free = {} THEN {} ELSE {CHOOSE c \in free : \A d \in free : c <= d})

\* outside the script an input is paid for from the budget
spendFrame(s, gap, deltaMs) ==
  IF s.budget.script # <<>> THEN s
  ELSE [s EXCEPT !.budget.ms = @ - deltaMs,
                 !.budget.short = IF gap < MAX_FRAME_DELTA_MS THEN @ - 1 ELSE @]

spendPointer(s) ==
  IF s.budget.script # <<>> THEN s ELSE [s EXCEPT !.budget.pointer = @ - 1]

spendStart(s) ==
  IF s.budget.script # <<>> THEN s ELSE [s EXCEPT !.budget.start = @ - 1]

Tick ==
  \E gap \in (IF scripted THEN {MAX_FRAME_DELTA_MS} ELSE FrameGaps) :
    \E rnd \in (IF scripted THEN {Head(budget.script).rnd}
                ELSE IF elapsedMs + MAX_FRAME_DELTA_MS >= nextSpawnAtMs THEN Rands
                ELSE {Rand0}) :
      /\ isRunning
      /\ scripted => scriptTarget(State) = {}
      /\ ~scripted => /\ frameDelta(gap) <= budget.ms
                      /\ gap < MAX_FRAME_DELTA_MS => budget.short > 0
      /\ Becomes(settle(tick(spendFrame(State, gap, frameDelta(gap)), gap, rnd)))

PointerDown ==
  \E c \in (IF scripted THEN scriptTarget(State) ELSE PointerCells(State)) :
    /\ scripted \/ budget.pointer > 0
    /\ Becomes(handlePointerDown(spendPointer(State), c))

PauseClick ==
  /\ ~scripted
  /\ budget.pause > 0
  /\ Becomes([handlePauseClick(State) EXCEPT !.budget.pause = @ - 1])

\* handleStartClick: the script opens with it; afterwards it is a restart
StartGame ==
  /\ IF scripted THEN ~isRunning ELSE budget.start > 0
  /\ Becomes(startGame(spendStart(State)))

Resize ==
  /\ ~scripted
  /\ budget.resize > 0
  /\ Becomes([refreshCells(State) EXCEPT !.budget.resize = @ - 1])

Next == Tick \/ PointerDown \/ PauseClick \/ StartGame \/ Resize

NoBudget ==
  [script |-> <<>>, ms |-> 0, pointer |-> 0, pause |-> 0, resize |-> 0,
   start |-> 0, short |-> 0]

\* the game object after construction and init(): assets loaded, canvas sized,
\* no match started
FreshState ==
  [isRunning |-> FALSE, isPaused |-> FALSE, isGameOver |-> FALSE,
   lastFrameKnown |-> FALSE, elapsedMs |-> 0,
   nextCheckpointAtMs |-> CHECKPOINT_MS, nextSpawnAtMs |-> 300,
   slowUntilMs |-> 0, level |-> 1, score |-> 0, combo |-> 0, bestCombo |-> 0,
   timeRemainingMs |-> START_TIME_MS, tierProgress |-> 0, skillEMA |-> 500,
   promotionState |-> "none", promotionTargetLevel |-> NoLevel,
   promotionElapsedMs |-> 0, levelEaseFromLevel |-> NoLevel,
   levelEaseElapsedMs |-> 0, levelEaseDurationMs |-> 0,
   stageTransitionLockMs |-> 0, stageFloorLevel |-> 1, lowPiStreak |-> 0,
   activeMoles |-> <<>>, recentCellIndices |-> <<>>,
   cellCooldownUntil |-> [c \in 0..8 |-> 0], moleSerial |-> 1,
   intervalStats |-> [hits |-> 0, misses |-> 0, reactionTotalMs |-> 0,
                      reactionCount |-> 0],
   cells |-> 9, budget |-> NoBudget, pendingSinceMs |-> 0,
   cellLastSpawnAt |-> [c \in 0..8 |-> -1], tickSpawns |-> <<>>,
   checkpointsDone |-> 0, lastCheckpoint |-> NoCheckpoint, totalPlays |-> 0,
   sessionHits |-> 0, timeoutMisses |-> 0]

\* ------------------------------------------------------------- scenarios
\* the draws that make targets stay long and follow each other fast
RandCrowd == [cell |-> 0, type |-> 0, dur |-> Milli, interval |-> 0]

\* the draws that make every target a hazard at level 1
RandHazard == [cell |-> 0, type |-> 999, dur |-> 0, interval |-> 0]

\* the player watches the first frames of a match
Opening == <<[policy |-> "idle", untilMs |-> 240, rnd |-> Rand0]>>

\* the player strikes every target but the hazards until two frames before
\* the checkpoint that requests the promotion out of level l; with this play
\* the request of level l comes at the checkpoint due at 25000 + 20000 (l - 1)
BeforeRequest(l) ==
  <<[policy |-> "ace", untilMs |-> 24880 + 20000 * (l - 1), rnd |-> Rand0]>>

\* level 4 with tier progress above one half, then the player stops playing
Slump ==
  <<[policy |-> "ace", untilMs |-> 75040, rnd |-> Rand0],
    [policy |-> "idle", untilMs |-> 81600, rnd |-> RandCrowd]>>

\* the player never plays: the time bank of 45000 runs down
RunDown == <<[policy |-> "idle", untilMs |-> 42800, rnd |-> Rand0]>>

\* the player strikes everything and every target is a hazard: the score
\* stays at 0 and every strike costs 2000 of the time bank
Reckless == <<[policy |-> "reckless", untilMs |-> 16480, rnd |-> RandHazard]>>

\* promoted to level 2, the player lets the targets go for the grace window:
\* the ceiling of one target makes the spawn clock fall behind by seconds
Lagging ==
  <<[policy |-> "ace", untilMs |-> 26240, rnd |-> Rand0],
    [policy |-> "idle", untilMs |-> 36080, rnd |-> RandCrowd]>>

\* then strikes every target as it appears
LaggingAce == Lagging \o <<[policy |-> "ace", untilMs |-> 36880, rnd |-> Rand0]>>

\* or strikes every target but the oldest one
LaggingSpare == Lagging \o <<[policy |-> "spare", untilMs |-> 37280, rnd |-> Rand0]>>

\* two promotions, then no input until the checkpoint that takes a level back
FallBack ==
  << [policy |-> "ace", untilMs |-> 46560, rnd |-> Rand0],
     [policy |-> "idle", untilMs |-> 69840, rnd |-> Rand0] >>

\* perfect play through all seven levels, up to two frames before the
\* checkpoint at 150000, which finds tier progress at level 7 above 80
TopLevel == << [policy |-> "ace", untilMs |-> 149920, rnd |-> Rand0] >>

\* the draws that make every target of level 1 a bonus target
RandBonus == [cell |-> 0, type |-> 950, dur |-> 0, interval |-> 0]

\* twenty-one bonus targets struck in a row
Streak == << [policy |-> "ace", untilMs |-> 17600, rnd |-> RandBonus] >>

\* the draws that make a chill target of every target of level 2 once its
\* grace window is over (a hazard before that, which the player lets go)
RandChill == [cell |-> 0, type |-> 999, dur |-> 0, interval |-> 0]

\* promoted to level 2, the player strikes the first chill target at 36240
Chill ==
  << [policy |-> "ace", untilMs |-> 26240, rnd |-> Rand0],
     [policy |-> "ace", untilMs |-> 36400, rnd |-> RandChill] >>

\* every target a hazard and every one struck, until the time bank is empty
\* and the match over (at 17040)
Ended == << [policy |-> "reckless", untilMs |-> 20000, rnd |-> RandHazard] >>

\* perfect play up to the tick that commits the promotion into level 2
IntoLock == << [policy |-> "ace", untilMs |-> 26240, rnd |-> Rand0] >>

\* perfect play up to the tick of the checkpoint that requests the promotion
\* into level 2, then every target a hazard and every one struck while the
\* promotion is pending
HazardInPending ==
  << [policy |-> "ace", untilMs |-> 25040, rnd |-> Rand0],
     [policy |-> "reckless", untilMs |-> 26160, rnd |-> RandHazard] >>

\* two promotions, then no input at all: level 3 is taken back at the
\* checkpoint at 70000, and the four checkpoints after it find the player of
\* level 2 as far behind, with a time bank that lasts just beyond the last
StayAtTwo ==
  << [policy |-> "ace", untilMs |-> 46560, rnd |-> Rand0],
     [policy |-> "idle", untilMs |-> 90160, rnd |-> Rand0] >>

Scenarios ==
  { [NoBudget EXCEPT !.script = HazardInPending],
    [NoBudget EXCEPT !.script = StayAtTwo],
    [NoBudget EXCEPT !.script = IntoLock, !.ms = HorizonMs \div 4, !.pointer = 1,
                     !.pause = 1],
    [NoBudget EXCEPT !.script = Opening, !.ms = HorizonMs,
                     !.pointer = PointerInputs],
    [NoBudget EXCEPT !.script = Opening, !.ms = HorizonMs, !.pointer = 1,
                     !.pause = PauseInputs],
    [NoBudget EXCEPT !.script = Opening, !.ms = HorizonMs,
                     !.resize = ResizeInputs, !.start = StartInputs],
    [NoBudget EXCEPT !.script = Slump, !.ms = 2 * HorizonMs + 400],
    [NoBudget EXCEPT !.script = RunDown, !.ms = HorizonMs + 800,
                     !.short = ShortFrames],
    [NoBudget EXCEPT !.script = Reckless, !.ms = HorizonMs \div 2,
                     !.pointer = PointerInputs, !.start = StartInputs],
    [NoBudget EXCEPT !.script = LaggingAce, !.ms = HorizonMs \div 4, !.pointer = 1,
                     !.resize = ResizeInputs],
    [NoBudget EXCEPT !.script = LaggingSpare, !.ms = HorizonMs \div 4],
    [NoBudget EXCEPT !.script = FallBack, !.ms = HorizonMs \div 4],
    [NoBudget EXCEPT !.script = TopLevel, !.ms = HorizonMs \div 4],
    [NoBudget EXCEPT !.script = Streak, !.ms = HorizonMs,
                     !.pointer = PointerInputs],
    [NoBudget EXCEPT !.script = Chill, !.ms = HorizonMs \div 4, !.pointer = 1],
    [NoBudget EXCEPT !.script = Ended, !.ms = HorizonMs \div 4, !.pointer = 1,
                     !.pause = 1, !.start = StartInputs] }
  \cup { [NoBudget EXCEPT !.script = BeforeRequest(l), !.ms = 2 * HorizonMs + 500,
                          !.short = ShortFrames] : l \in 1..(MAX_LEVEL - 1) }

Init == \E b \in Scenarios : Is([FreshState EXCEPT !.budget = b])

Spec == Init /\ [][Next]_vars

\* ------------------------------------------------- the steady player
\* A player of level 1 who, in every interval of 5000 ms, strikes three
\* targets that are not hazards and lets none go; the mean reaction time of
\* an interval is one of SteadyReactions, all below the reference of 900 ms.
SteadyReactions == {80, 480, 880}

\* the steady player is followed for this much match time
SteadyHorizonMs == 50000

\* the state at the end of such an interval: the time bank has decayed for
\* 5000 ms (the match ends when it runs out on the way), the combo has grown
\* by 3, and the checkpoint that is due is evaluated
steadyInterval(s, reactionMs) ==
  IF s.timeRemainingMs < CHECKPOINT_MS
  THEN endGame([s EXCEPT !.elapsedMs = @ + s.timeRemainingMs,
                         !.timeRemainingMs = 0])
  ELSE endIfOutOfTime(
         runCheckpointIfNeeded(
           decayTime([s EXCEPT !.elapsedMs = @ + CHECKPOINT_MS,
                               !.combo = @ + 3,
                               !.bestCombo = Max(@, s.combo + 3),
                               !.sessionHits = @ + 3,
                               !.intervalStats =
                                  [hits |-> 3, misses |-> 0,
                                   reactionTotalMs |-> 3 * reactionMs,
                                   reactionCount |-> 3]],
                     CHECKPOINT_MS)))

SteadyInterval ==
  \E reactionMs \in SteadyReactions :
    /\ isRunning
    /\ level = 1
    /\ promotionState = "none"
    /\ elapsedMs < SteadyHorizonMs
    /\ Becomes(steadyInterval(State, reactionMs))

SteadyInit == Is(startGame(FreshState))

SteadyNext == SteadyInterval

\* ENABLED <<SteadyNext>>_vars: the guard of SteadyInterval, every step of
\* which advances the clock
SteadyCanPlay ==
  isRunning /\ level = 1 /\ promotionState = "none" /\ elapsedMs < SteadyHorizonMs

\* WF_vars(SteadyNext) written out with its enabling condition: the frame
\* loop keeps running while the match does, so the steady player's next
\* interval always comes
SteadyFair == []<>(~SteadyCanPlay) \/ []<><<SteadyNext>>_vars

SteadySpec == SteadyInit /\ [][SteadyNext]_vars /\ SteadyFair

\* ------------------------------------------------- the checkpoint alone
\* evaluateCheckpoint applied once to match states drawn from bounded sets:
\* every level, the three transition states, hits and misses up to
\* MaxIntervalCount.  A pending promotion has tier progress of 88 or more
\* (startPromotion) and a level below the highest; grace and level-entry
\* easing follow a level-up, so level 1 has neither; stageFloorLevel is the
\* highest level reached (setLevel), which is 1 exactly at level 1; a level
\* takes some 20 s of play to leave, and the clock is set accordingly.
MaxIntervalCount == 3

CheckpointSkills == {100, 400, 700}

CheckpointProgress(state) ==
  IF state = "pending" THEN {88000, 100000} ELSE {0, 1000, 16000, 70000}

CheckpointStates(l) ==
  {"none"} \cup (IF l < MAX_LEVEL THEN {"pending"} ELSE {})
           \cup (IF l > 1 THEN {"grace"} ELSE {})

checkpointInput(l, reached, state, skill, progress, hits, misses, streak, easeFrom) ==
  [startGame(FreshState) EXCEPT
     !.level = l,
     !.cells = LEVEL_CONFIGS(l).grid * LEVEL_CONFIGS(l).grid,
     !.promotionState = state,
     !.promotionTargetLevel = IF state = "pending" THEN l + 1 ELSE NoLevel,
     !.skillEMA = skill,
     !.tierProgress = progress,
     !.lowPiStreak = streak,
     !.levelEaseFromLevel = easeFrom,
     !.stageFloorLevel = reached,
     !.elapsedMs = 6 * l * CHECKPOINT_MS,
     !.nextCheckpointAtMs = 6 * l * CHECKPOINT_MS,
     !.timeRemainingMs = CHECKPOINT_MS,
     !.intervalStats = [hits |-> hits, misses |-> misses,
                        reactionTotalMs |-> 300 * hits, reactionCount |-> hits]]

CheckpointInit ==
  \E l \in 1..MAX_LEVEL, skill \in CheckpointSkills, streak \in {0, 2, 3} :
    \E state \in CheckpointStates(l),
       reached \in (IF l = 1 THEN {1} ELSE {l, Min(MAX_LEVEL, l + 1)}),
       easeFrom \in (IF l = 1 THEN {NoLevel} ELSE {NoLevel, l - 1}) :
      \E progress \in CheckpointProgress(state),
         hits \in 0..MaxIntervalCount, misses \in 0..MaxIntervalCount :
        Is(checkpointInput(l, reached, state, skill, progress, hits, misses,
                           streak, easeFrom))

CheckpointStep ==
  /\ lastCheckpoint.atMs < 0
  /\ Becomes(runCheckpointIfNeeded(State))

CheckpointNext == CheckpointStep

CheckpointSpec == CheckpointInit /\ [][CheckpointNext]_vars

\* ================================================================= claims
moleIds(moles) == {moles[i].id : i \in 1..Len(moles)}
moleOf(moles, id) == moles[CHOOSE i \in 1..Len(moles) : moles[i].id = id]

\* a level change or a new match empties the active set
SweepStep ==
  /\ activeMoles' = <<>>
  /\ level' # level \/ (elapsedMs' = 0 /\ moleSerial' = 1)

PhaseSteps ==
  {<<"pop", "idle">>, <<"pop", "hit">>, <<"idle", "hit">>, <<"idle", "retreat">>,
   <<"hit", "retreat">>}

C1_Step ==
  /\ \A id \in moleIds(activeMoles) \cap moleIds(activeMoles') :
       LET before == moleOf(activeMoles, id).phase
           after == moleOf(activeMoles', id).phase
       IN before = after \/ <<before, after>> \in PhaseSteps
  /\ \A id \in moleIds(activeMoles') \ moleIds(activeMoles) :
       moleOf(activeMoles', id).phase = "pop"
  /\ \A id \in moleIds(activeMoles) \ moleIds(activeMoles') :
       moleOf(activeMoles, id).phase = "retreat" \/ SweepStep

\* C1 (as amended): every target starts in pop; its phase changes only along
\* pop -> idle, pop -> hit, idle -> hit, idle -> retreat, hit -> retreat; it
\* leaves the active set from retreat, or from any phase when a level change
\* or a new match empties the active set.
C1_PhaseOrder == [][C1_Step]_vars

\* a target struck while still entering
C1_Witness ==
  \E i \in 1..Len(activeMoles) :
    /\ activeMoles[i].phase = "hit"
    /\ elapsedMs - activeMoles[i].spawnedAtMs < activeMoles[i].popDurationMs

C1_ClaimedStep ==
  /\ \A id \in moleIds(activeMoles) \cap moleIds(activeMoles') :
       LET before == moleOf(activeMoles, id).phase
           after == moleOf(activeMoles', id).phase
       IN before = after
            \/ <<before, after>> \in PhaseSteps \ {<<"pop", "hit">>}
  /\ \A id \in moleIds(activeMoles') \ moleIds(activeMoles) :
       moleOf(activeMoles', id).phase = "pop"
  /\ \A id \in moleIds(activeMoles) \ moleIds(activeMoles') :
       moleOf(activeMoles, id).phase = "retreat"

\* C1 as stated: the only sequences are pop, idle, hit, retreat, removed and
\* pop, idle, retreat, removed
C1_AsClaimed == [][C1_ClaimedStep]_vars

\* C2 (as amended): a target is spawned only while the number of active
\* targets is below the ceiling of the profile computed in that tick before
\* spawning, and there are never more than 3 active targets.
C2_CeilingAtSpawn ==
  /\ \A i \in 1..Len(tickSpawns) :
       tickSpawns[i].activeBefore < tickSpawns[i].concurrentMax
  /\ Len(activeMoles) <= 3

\* a third target spawned under a ceiling of 3 in the tick whose checkpoint
\* lowers the ceiling to 2
C2_Witness ==
  /\ isRunning
  /\ tickSpawns # <<>>
  /\ tickSpawns[Len(tickSpawns)].concurrentMax = 3
  /\ Len(activeMoles) = 3
  /\ getDifficultyProfile(State).concurrentMax = 2

\* C2 as stated: at every tick the active count is at most the ceiling of the
\* profile computed from the state at that tick
C2_AsClaimed ==
  isRunning => Len(activeMoles) <= getDifficultyProfile(State).concurrentMax

\* C3: no two active targets occupy the same cell.
C3_DistinctCells ==
  \A i, j \in 1..Len(activeMoles) :
    i # j => activeMoles[i].cellIndex # activeMoles[j].cellIndex

\* a target spawned while another cell was occupied
C3_Witness ==
  /\ Len(activeMoles) >= 2
  /\ \E i \in 1..Len(tickSpawns) : tickSpawns[i].occupied # {}

\* C4 as stated: when a spawn happens and some cell is unlocked, unoccupied,
\* 900 ms or more past its last spawn and not among the 3 most recently used
\* cells, the chosen cell is such a cell
C4_AsClaimed ==
  \A i \in 1..Len(tickSpawns) :
    tickSpawns[i].eligibleByTime # {}
      => tickSpawns[i].cellIndex \in tickSpawns[i].eligibleByTime

\* C5: the score is never negative.
C5_ScoreNonNegative == score >= 0

\* a second hazard struck with the score at 0
C5_Witness ==
  /\ score = 0
  /\ timeRemainingMs + elapsedMs <= START_TIME_MS - 4000
  /\ \E i \in 1..Len(activeMoles) :
       activeMoles[i].type = "bomb" /\ activeMoles[i].phase = "hit"

\* C6: the time bank stays within 0 and MAX_TIME_MS.
C6_TimeBankInRange == 0 <= timeRemainingMs /\ timeRemainingMs <= 120000

\* a hazard struck with less than 2000 ms left
C6_Witness ==
  /\ isRunning
  /\ timeRemainingMs = 0
  /\ \E i \in 1..Len(activeMoles) :
       activeMoles[i].type = "bomb" /\ activeMoles[i].phase = "hit"
                                    /\ activeMoles[i].phaseElapsedMs = 0

\* C7: after every tick the number of checkpoint evaluations of the match is
\* the number of whole periods of 5000 ms in the accumulated simulated time.
C7_CheckpointPerPeriod == checkpointsDone = elapsedMs \div 5000

\* the fifth evaluation, on the tick that reaches 25000, inside a frame
\* sequence with a short frame
C7_Witness ==
  /\ checkpointsDone = 5
  /\ elapsedMs % 80 # 0
  /\ elapsedMs < 25000 + 80

C8_Step ==
  LET pendingMs == IF level = 1 THEN 1200 ELSE 1500
  IN /\ promotionState = "pending" /\ promotionState' = "grace"
          => /\ elapsedMs' >= pendingSinceMs + pendingMs
             /\ elapsedMs' < pendingSinceMs + pendingMs + 80
             /\ elapsedMs < pendingSinceMs + pendingMs
     /\ promotionState = "pending" /\ promotionState' = "pending"
          => elapsedMs' < pendingSinceMs + pendingMs

\* C8 (as amended): a promotion requested at time T and not cancelled is
\* committed on the first tick at which the simulated time is T plus the
\* pending duration (1200 at level 1, 1500 otherwise) or more, that is less
\* than one tick (80 ms) after T plus the pending duration.
C8_CommitOnFirstTickAfterWindow == [][C8_Step]_vars

\* a commit 1520 ms after the request
C8_Witness ==
  /\ promotionState = "grace"
  /\ stageTransitionLockMs = 1800
  /\ elapsedMs = pendingSinceMs + 1520

C8_ClaimedStep ==
  promotionState = "pending" /\ promotionState' = "grace"
    => elapsedMs' = pendingSinceMs + (IF level = 1 THEN 1200 ELSE 1500)

\* C8 as stated: the commit occurs at exactly T plus the pending duration
C8_AsClaimed == [][C8_ClaimedStep]_vars

C9_Step ==
  /\ promotionState' # promotionState
       => <<promotionState, promotionState'>> \in
            {<<"none", "pending">>, <<"pending", "grace">>,
             <<"pending", "none">>, <<"grace", "none">>}
  /\ promotionState = "none" /\ promotionState' = "pending"
       => checkpointsDone' = checkpointsDone + 1
  /\ level' > level
       => /\ promotionState = "pending" /\ promotionState' = "grace"
          /\ level' = level + 1

\* C9: the stage transition state changes only none -> pending (at a
\* checkpoint), pending -> grace, pending -> none and grace -> none, and the
\* level increases only on pending -> grace, by exactly one.
C9_StageTransitions == [][C9_Step]_vars

\* level 2 after its grace window, the entry easing still running
C9_Witness ==
  /\ level = 2
  /\ promotionState = "none"
  /\ levelEaseFromLevel = 1

C10_Step ==
  promotionState = "pending" /\ promotionState' = "grace"
    => /\ level' = promotionTargetLevel
       /\ timeRemainingMs' =
            (CASE level' = 2 -> 45000 [] level' = 3 -> 43000 [] level' = 4 -> 41000
               [] level' = 5 -> 39000 [] level' = 6 -> 37000 [] level' = 7 -> 35000
               [] OTHER -> -1)
       /\ activeMoles' = <<>>
       /\ recentCellIndices' = <<>>
       /\ promotionElapsedMs' = 0
       /\ stageTransitionLockMs' = 1800

\* C10: the commit step sets the level to the recorded target, the time bank
\* to the stage start value of that level, empties the active set and the
\* recency history, enters grace with its timer at 0 and opens a lock of
\* 1800 ms, in one tick.
C10_CommitStep == [][C10_Step]_vars

\* the commit into level 7
C10_Witness ==
  /\ level = 7
  /\ promotionState = "grace"
  /\ promotionElapsedMs = 0
  /\ stageTransitionLockMs = 1800
  /\ timeRemainingMs = 35000

\* a frame or an input other than a restart or a resize
C11_FrameOrInput ==
  /\ budget'.start = budget.start
  /\ budget'.resize = budget.resize

C11_Step ==
  isRunning /\ stageTransitionLockMs > 0 /\ C11_FrameOrInput
    => /\ stageTransitionLockMs' =
            Max(0, stageTransitionLockMs - (elapsedMs' - elapsedMs))
       /\ UNCHANGED << timeRemainingMs, activeMoles, moleSerial, score, combo,
                       bestCombo, intervalStats, tierProgress, skillEMA, level,
                       promotionState, promotionTargetLevel, promotionElapsedMs,
                       levelEaseElapsedMs, lowPiStreak, stageFloorLevel,
                       nextSpawnAtMs, nextCheckpointAtMs, slowUntilMs,
                       recentCellIndices, cellCooldownUntil, isPaused, isGameOver,
                       checkpointsDone >>

\* C11: while the transition lock is open, a tick counts the lock down by the
\* frame delta and advances the simulated clock by it, and changes nothing
\* else: the time bank does not decay, no target is spawned or stepped, and
\* score, combo, interval statistics, tier progress, skill estimate, level and
\* the promotion timers stay as they are; a pointer or pause input changes
\* nothing at all.
C11_LockFreezes == [][C11_Step]_vars

\* inside the lock of the commit into level 2, after frames and the pointer
\* input of the player
C11_Witness ==
  /\ isRunning
  /\ stageTransitionLockMs > 0
  /\ stageTransitionLockMs < STAGE_TRANSITION_NOTICE_MS
  /\ budget.script = <<>>
  /\ budget.pointer = 0
  /\ budget.pause > 0
  /\ budget.start = 0

C11_ClaimedStep ==
  isRunning /\ stageTransitionLockMs > 0 /\ C11_FrameOrInput
    => UNCHANGED << elapsedMs, timeRemainingMs, activeMoles, moleSerial, score,
                    combo, intervalStats, tierProgress, skillEMA,
                    promotionElapsedMs >>

\* C11 as claimed: a tick inside the lock changes nothing but the lock
\* countdown, the simulated clock included
C11_AsClaimed == [][C11_ClaimedStep]_vars

C12_Step ==
  /\ isRunning /\ isPaused /\ C11_FrameOrInput
       => UNCHANGED << elapsedMs, timeRemainingMs, activeMoles, moleSerial,
                       nextSpawnAtMs, nextCheckpointAtMs, checkpointsDone,
                       intervalStats, score, combo, bestCombo, level,
                       tierProgress, skillEMA, promotionState,
                       promotionTargetLevel, promotionElapsedMs,
                       stageTransitionLockMs, levelEaseElapsedMs, slowUntilMs,
                       lowPiStreak, recentCellIndices, cellCooldownUntil,
                       isGameOver >>
  /\ elapsedMs' <= elapsedMs + MAX_FRAME_DELTA_MS

\* C12: while the match is paused, a tick, a pointer input and the resuming
\* pause input leave the match state unchanged: elapsed time, time bank,
\* active targets with their phase timers, spawn and checkpoint schedule,
\* interval statistics, score, combo, level and promotion timers; and no step,
\* the first tick after a resume included, adds more than one capped frame
\* delta to the elapsed time.
C12_PauseFreezes == [][C12_Step]_vars

\* paused with a target on the board, after a pointer input that registered
\* neither a hit nor a miss
C12_Witness ==
  /\ isRunning
  /\ isPaused
  /\ activeMoles # <<>>
  /\ budget.script = <<>>
  /\ budget.pause = PauseInputs - 1
  /\ budget.pointer = 0
  /\ intervalStats.hits = 0
  /\ intervalStats.misses = 0

\* the level goes down and the match is not restarted
C13_Demotes == level' < level /\ elapsedMs' > 0

C13_Step ==
  C13_Demotes
    => /\ level' = level - 1
       /\ level' >= 1
       /\ promotionState = "none"
       /\ promotionState' = "none"
       /\ stageTransitionLockMs = 0
       /\ stageTransitionLockMs' = 0
       /\ tierProgress' = 60000
       /\ checkpointsDone' = checkpointsDone + 1

\* C13: a demotion is one step of one checkpoint, from transition state none
\* to none: the level goes down by exactly one, no pending or grace state is
\* entered, no transition lock is opened, and tier progress becomes 60.
C13_DemotionIsImmediate == [][C13_Step]_vars

\* the checkpoint at 70000 has taken the player from level 3 back to level 2
C13_Witness ==
  /\ level = 2
  /\ stageFloorLevel = 3
  /\ tierProgress = 60000
  /\ lowPiStreak = 0
  /\ promotionState = "none"
  /\ stageTransitionLockMs = 0
  /\ checkpointsDone = 14

\* C14: the level is always one of 1..7, and at level 7 no promotion is ever
\* requested: the transition state is never pending there and a recorded
\* target level is never above 7.
C14_LevelRange ==
  /\ level \in 1..MAX_LEVEL
  /\ level = MAX_LEVEL => promotionState # "pending"
  /\ promotionTargetLevel \in {NoLevel} \cup (2..MAX_LEVEL)

\* level 7 just after the checkpoint at 150000, which found tier progress
\* and skill above what a promotion request asks of the levels below
C14_Witness ==
  /\ level = MAX_LEVEL
  /\ checkpointsDone = 30
  /\ budget.script = <<>>
  /\ tierProgress >= 80000
  /\ skillEMA >= getTargetPiForLevel(MAX_LEVEL) + 50
  /\ promotionState = "none"
  /\ stageTransitionLockMs = 0

\* the ids of the targets struck in this step, by type
struckNow(types) ==
  { id \in moleIds(activeMoles) \cap moleIds(activeMoles') :
      /\ moleOf(activeMoles, id).phase \in {"pop", "idle"}
      /\ moleOf(activeMoles', id).phase = "hit"
      /\ moleOf(activeMoles, id).type \in types }

C15_Step ==
  struckNow({"bomb"}) # {}
    => /\ score' = Max(0, score - 3)
       /\ timeRemainingMs' = Max(0, timeRemainingMs - 2000)
       /\ combo' = 0
       /\ bestCombo' = bestCombo

\* C15: striking a hazard, at whatever combo, lowers the score by exactly 3
\* (never multiplied, floored at 0), lowers the time bank by 2000 ms (floored
\* at 0) and resets the combo to 0.
C15_HazardPenalty == [][C15_Step]_vars

\* a hazard struck as the first free input after a streak of 21 hits: the
\* score is 3 below that of the streak
C15_Witness ==
  /\ budget.script = <<>>
  /\ budget.pointer = PointerInputs - 1
  /\ bestCombo = 21
  /\ combo = 0
  /\ score = 96
  /\ \E i \in 1..Len(activeMoles) :
        /\ activeMoles[i].type = "bomb"
        /\ activeMoles[i].phase = "hit"
        /\ activeMoles[i].phaseElapsedMs = 0

\* the multiplier of the combo a strike reaches, in thousandths
C16_Multiplier(c) ==
  CASE c < 5 -> 1000 [] c >= 5 /\ c < 10 -> 1200 [] c >= 10 /\ c < 15 -> 1500
    [] OTHER -> 2000

\* base times multiplier in thousandths, rounded to the nearest integer
C16_Gain(base, c) == (base * C16_Multiplier(c) + 500) \div 1000

C16_Step ==
  \A id \in struckNow({"normal", "gold", "ice"}) :
    /\ combo' = combo + 1
    /\ score' = score + C16_Gain(IF moleOf(activeMoles, id).type = "gold"
                                  THEN 3 ELSE 1, combo + 1)
    /\ moleOf(activeMoles, id).type = "normal" /\ combo' <= 5 => score' = score + 1

\* C16: striking a target that is not a hazard first raises the combo by 1
\* and then raises the score by round(base * m), base 1 for common and chill
\* and 3 for bonus, m = 1.0 below combo 5, 1.2 from 5, 1.5 from 10, 2.0 from 15,
\* the combo being the raised one; each of five common hits in a row from
\* combo 0 adds exactly 1.
C16_HitScore == [][C16_Step]_vars

\* the tenth bonus target of a streak has just been struck: 3 * 1.5 gave 5
C16_Witness ==
  /\ combo = 10
  /\ score = 37
  /\ \E i \in 1..Len(activeMoles) :
        /\ activeMoles[i].type = "gold"
        /\ activeMoles[i].phase = "hit"
        /\ activeMoles[i].phaseElapsedMs = 0

\* the exposed duration of a spawn: the draw from the hold band, scaled by
\* the type (0.76 bonus, 0.9 chill) and, under the slow status, by
\* slowMilli thousandths
C17_Exposure(seen, slowMilli) ==
  (seen.holdMs
     * (IF seen.type = "gold" THEN 760 ELSE IF seen.type = "ice" THEN 900 ELSE 1000)
     * (IF seen.slowed THEN slowMilli ELSE 1000)) \div 1000000

C17_StepWith(slowMilli) ==
  /\ struckNow({"ice"}) # {} => slowUntilMs' = elapsedMs + 2000
  /\ \A i \in 1..Len(tickSpawns') :
        tickSpawns'[i].idleDurationMs = C17_Exposure(tickSpawns'[i], slowMilli)

\* C17: striking a chill target at simulated time t sets slow-until to
\* t + 2000, and every target created while the time is below slow-until has
\* its exposed duration scaled by 1.2 relative to the duration it would have
\* without the slow status (1.35 is the factor of the spawn interval).
C17_SlowExposure == [][C17_StepWith(1200)]_vars

\* a target spawned inside the slow window of a struck chill target
C17_Witness ==
  /\ slowUntilMs > elapsedMs
  /\ \E i \in 1..Len(tickSpawns) :
        /\ tickSpawns[i].slowed
        /\ tickSpawns[i].idleDurationMs > tickSpawns[i].holdMs

\* C17 as claimed: the exposed duration is scaled by 1.35
C17_AsClaimed == [][C17_StepWith(1350)]_vars

\* the ids of the targets whose exposure ran out in this step
timedOutNow ==
  { id \in moleIds(activeMoles) \cap moleIds(activeMoles') :
      /\ moleOf(activeMoles, id).phase = "idle"
      /\ ~moleOf(activeMoles, id).wasHit
      /\ moleOf(activeMoles', id).phase = "retreat" }

C18_Step ==
  intervalStats'.misses > intervalStats.misses
    => /\ combo' = 0
       /\ score' = score
       /\ level' = level
       /\ intervalStats'.hits = intervalStats.hits
       /\ IF elapsedMs' = elapsedMs
          THEN /\ intervalStats'.misses = intervalStats.misses + 1
               /\ UNCHANGED << timeRemainingMs, activeMoles >>
          ELSE /\ timedOutNow # {}
               /\ intervalStats'.misses =
                    intervalStats.misses + Cardinality(timedOutNow)
               /\ timeRemainingMs' =
                    IF promotionState = "pending" THEN timeRemainingMs
                    ELSE Max(0, timeRemainingMs - (elapsedMs' - elapsedMs))

\* C18: a miss resets the combo to 0, raises the miss count of the interval
\* by exactly 1 and leaves score, level, time bank and the set of active
\* targets as they are: an input that strikes nothing changes nothing else,
\* and a tick counts one miss for each target whose exposure runs out, the
\* time bank changing by the decay of the tick only.
C18_MissEffect == [][C18_Step]_vars

\* the first free input after a streak of 21 hits struck nothing: the combo
\* is gone, the score of the streak is kept
C18_Witness ==
  /\ budget.script = <<>>
  /\ budget.pointer = PointerInputs - 1
  /\ bestCombo = 21
  /\ combo = 0
  /\ score = 99
  /\ intervalStats.misses = 1

\* the cells showing a target that is struck or exiting
C19_SpentCells ==
  { activeMoles[i].cellIndex :
      i \in { j \in 1..Len(activeMoles) : activeMoles[j].phase \in {"hit", "retreat"} } }

C19_ClaimedStep ==
  \A c \in C19_SpentCells :
    /\ isRunning /\ ~isPaused /\ stageTransitionLockMs = 0
    /\ scripted \/ budget.pointer > 0
    /\ Becomes(handlePointerDown(spendPointer(State), c))
    => UNCHANGED << combo, intervalStats, score, timeRemainingMs, activeMoles >>

\* C19 as claimed: a pointer input on a target that is struck or exiting is
\* ignored: it changes no state and counts as neither a hit nor a miss.
C19_AsClaimed == [][C19_ClaimedStep]_vars

\* C20 as claimed: after a tick whose last spawn found fewer active targets
\* than the concurrency floor of the profile, the next spawn is due at once:
\* the next spawn time is the current simulated time.
C20_AsClaimed ==
  /\ isRunning
  /\ tickSpawns # <<>>
  /\ tickSpawns[Len(tickSpawns)].activeBefore
       < tickSpawns[Len(tickSpawns)].concurrentMin
  => nextSpawnAtMs = elapsedMs

\* C21 as claimed: in the state in which a match has ended no active target
\* remains.
C21_AsClaimed == isGameOver => activeMoles = <<>>

C22_Step ==
  /\ isGameOver /\ ~isRunning'
       => UNCHANGED << isRunning, isPaused, isGameOver, elapsedMs, timeRemainingMs,
                       activeMoles, moleSerial, nextSpawnAtMs, nextCheckpointAtMs,
                       checkpointsDone, intervalStats, score, combo, bestCombo,
                       level, tierProgress, skillEMA, promotionState,
                       promotionTargetLevel, promotionElapsedMs,
                       stageTransitionLockMs, slowUntilMs, lowPiStreak,
                       totalPlays >>
  /\ totalPlays' = totalPlays + (IF ~isGameOver /\ isGameOver' THEN 1 ELSE 0)
  /\ isGameOver' /\ isRunning => ~isGameOver /\ timeRemainingMs' = 0

\* C22: from the end of a match until a new match is started no pointer or
\* pause input (and no tick: none is scheduled) changes the match state:
\* targets, schedules, checkpoints, score, combo, level and time bank stay as
\* they were at the end; the match is booked once, in the step that ends it.
C22_EndedIsFrozen == [][C22_Step]_vars

\* the ended match, with its leftover target, after a pointer input and a
\* pause input
C22_Witness ==
  /\ isGameOver
  /\ ~isRunning
  /\ totalPlays = 1
  /\ activeMoles # <<>>
  /\ budget.script = <<>>
  /\ budget.pointer = 0
  /\ budget.pause = 0
  /\ budget.start = StartInputs

C24_AsClaimed ==
  \A i \in 1..Len(tickSpawns) :
    \A k \in 1..4 : tickSpawns[i].weights[k] > 0

\* C24 as the code has it: at every spawn the normal, gold and bomb weights
\* are at least 1, 0.5 and 0.2, the ice weight is at least 0, and at level 1
\* the ice weight is 0, so that the lottery never draws ice there.
C24_WeightFloors ==
  \A i \in 1..Len(tickSpawns) :
    /\ tickSpawns[i].weights[1] >= Milli
    /\ tickSpawns[i].weights[2] >= 500
    /\ tickSpawns[i].weights[3] >= 200
    /\ tickSpawns[i].weights[4] >= 0
    /\ tickSpawns[i].level = 1 =>
         tickSpawns[i].weights[4] = 0 /\ tickSpawns[i].type # "ice"

\* a spawn at level 1 whose lottery, with no weight on ice, drew the last
\* category that has any: a bomb
C24_Witness ==
  \E i \in 1..Len(tickSpawns) :
    /\ tickSpawns[i].level = 1
    /\ tickSpawns[i].weights[4] = 0
    /\ tickSpawns[i].weights[3] > 0
    /\ tickSpawns[i].type = "bomb"

\* the conditions of C25 on what the last checkpoint saw
C25_Ready ==
  /\ lastCheckpoint.stateBefore = "none"
  /\ lastCheckpoint.level < 7
  /\ lastCheckpoint.progressRated >= (IF lastCheckpoint.level = 1 THEN 66000 ELSE 80000)
  /\ lastCheckpoint.skill >= (IF lastCheckpoint.level = 1
                               THEN lastCheckpoint.targetPi - 20
                               ELSE lastCheckpoint.targetPi + 50)
  /\ lastCheckpoint.hits >= (IF lastCheckpoint.level = 1 THEN 1
                              ELSE Max(2, MIN_HITS_TO_LEVEL_UP(lastCheckpoint.level) - 1))

\* the last checkpoint requested a promotion
C25_Requested ==
  /\ lastCheckpoint.stateAfterCancel # "pending"
  /\ lastCheckpoint.stateAfterRequest = "pending"

\* C25: a checkpoint requests a promotion exactly when, after its skill and
\* progress update, the state is none, the level is below 7, tier progress is
\* at least 66 (level 1) or 80, the skill estimate is at least target PI - 0.02
\* (level 1) or target PI + 0.05, and the interval's hits meet the level's
\* minimum; the request sets the state to pending, the target to level + 1
\* and tier progress to at least 88.
C25_RequestExactlyWhenReady ==
  lastCheckpoint.atMs >= 0 =>
    /\ C25_Requested <=> C25_Ready
    /\ C25_Requested =>
         /\ lastCheckpoint.targetAfterRequest = lastCheckpoint.level + 1
         /\ lastCheckpoint.progressAfterRequest >= 88000

\* a request above level 1 that lifted tier progress from below 88 to 88
C25_Witness ==
  /\ C25_Requested
  /\ lastCheckpoint.level > 1
  /\ lastCheckpoint.progressRated < 88000
  /\ lastCheckpoint.progressAfterRequest = 88000
  /\ promotionState = "pending"
  /\ promotionTargetLevel = lastCheckpoint.level + 1

\* the last checkpoint cancelled a pending promotion
C26_Cancelled ==
  /\ lastCheckpoint.stateBefore = "pending"
  /\ lastCheckpoint.stateAfterCancel = "none"

\* C26: a checkpoint cancels a pending promotion, leaving the level as it
\* is, only at a level above 1 with the skill estimate more than 0.08 below
\* the level's target PI and more misses than hits in the interval; at level 1
\* a pending promotion is never cancelled; the checkpoint that cancels does
\* not request a promotion again.
C26_CancelOnlyWhenSlumping ==
  lastCheckpoint.atMs >= 0 =>
    /\ C26_Cancelled =>
         /\ lastCheckpoint.level > 1
         /\ lastCheckpoint.skill < lastCheckpoint.targetPi - 80
         /\ lastCheckpoint.misses > lastCheckpoint.hits
         /\ lastCheckpoint.levelAfter = lastCheckpoint.level
         /\ lastCheckpoint.stateAfterRequest = "none"
         /\ promotionState = "none"
         /\ level = lastCheckpoint.level
    /\ lastCheckpoint.level = 1 /\ lastCheckpoint.stateBefore = "pending" =>
         lastCheckpoint.stateAfterCancel = "pending" /\ promotionState = "pending"

\* a cancellation at level 2, and with it the promotion state of the match
C26_Witness ==
  /\ C26_Cancelled
  /\ lastCheckpoint.level = 2
  /\ lastCheckpoint.misses = lastCheckpoint.hits + 1
  /\ promotionState = "none"
  /\ promotionTargetLevel = NoLevel
  /\ level = 2

\* a checkpoint was evaluated in this step
C27_Checkpoint ==
  lastCheckpoint' # lastCheckpoint /\ lastCheckpoint'.atMs >= 0

C27_Step ==
  /\ level' < level /\ elapsedMs' > 0 =>
       /\ C27_Checkpoint
       /\ lastCheckpoint'.level = level
       /\ lastCheckpoint'.levelAfter = level'
       /\ lastCheckpoint'.stateAfterRequest = "none"
       /\ lastCheckpoint'.level > lastCheckpoint'.floorLevel
       /\ lastCheckpoint'.easing = NoLevel
       /\ lastCheckpoint'.atMs > 25000
       /\ lastCheckpoint'.streak >= 4
       /\ lastCheckpoint'.skill <= lastCheckpoint'.targetPi - 220
       /\ lastCheckpoint'.progressAfterRequest <= 16000
       /\ lastCheckpoint'.streakAfter = 0
       /\ lowPiStreak' = 0
  /\ C27_Checkpoint /\ lastCheckpoint'.pi >= 400 =>
       lastCheckpoint'.streak = 0 /\ lowPiStreak' = 0
  /\ C27_Checkpoint /\ lastCheckpoint'.pi < 400 =>
       lastCheckpoint'.streak = lowPiStreak + 1

\* C27: the level is lowered only by a checkpoint at which the state is
\* none, the level is above the demotion floor, no level-entry easing is
\* active, more than 25000 ms have elapsed, the streak of checkpoints with PI
\* below 0.4 is at least 4, the skill estimate is at most target PI - 0.22 and
\* tier progress is at most 16; the demotion resets the streak to 0, and so
\* does every checkpoint with PI of at least 0.4.
C27_DemotionOnlyWhenLagging == [][C27_Step]_vars

\* the checkpoint after which the level is one lower and the streak of four
\* is gone
C27_Witness ==
  /\ lastCheckpoint.atMs = elapsedMs
  /\ lastCheckpoint.levelAfter = lastCheckpoint.level - 1
  /\ level = lastCheckpoint.levelAfter
  /\ lastCheckpoint.streak >= 4
  /\ lastCheckpoint.pi < 400
  /\ lowPiStreak = 0

\* the unstruck exposed targets whose exposure runs out within this step
C28_Expiring ==
  { id \in moleIds(activeMoles) :
      /\ moleOf(activeMoles, id).phase = "idle"
      /\ ~moleOf(activeMoles, id).wasHit
      /\ moleOf(activeMoles, id).phaseElapsedMs + (elapsedMs' - elapsedMs)
           >= moleOf(activeMoles, id).idleDurationMs }

\* the misses counted in this step, as the checkpoint of the step saw them
\* if there was one
C28_MissesAdded ==
  (IF checkpointsDone' > checkpointsDone THEN lastCheckpoint'.misses
   ELSE intervalStats'.misses) - intervalStats.misses

\* the step is a tick in which updateMoles runs: time passes outside the
\* transition lock and without a commit
C28_MolesUpdated ==
  /\ elapsedMs' > elapsedMs
  /\ stageTransitionLockMs = 0
  /\ stageTransitionLockMs' = 0

C28_Step ==
  elapsedMs' > elapsedMs =>
    IF C28_MolesUpdated
    THEN /\ C28_MissesAdded = Cardinality(C28_Expiring)
         /\ C28_Expiring # {} => combo' = 0
         /\ \A id \in C28_Expiring \cap moleIds(activeMoles') :
               /\ moleOf(activeMoles', id).phase = "retreat"
               /\ moleOf(activeMoles', id).phaseElapsedMs = 0
               /\ ~moleOf(activeMoles', id).wasHit
    ELSE C28_MissesAdded = 0

\* C28: in a tick every exposed target that was not struck and whose
\* exposure runs out moves to the exiting phase and counts as exactly one
\* miss (combo reset, miss count of the interval + 1); nothing else counts
\* as a miss in a tick: not the exit of a struck target, and not the targets
\* removed by a level change or a transition commit.
C28_TimeoutMisses == [][C28_Step]_vars

\* a target has just timed out, unstruck, and broken a combo
C28_Witness ==
  /\ intervalStats.misses >= 1
  /\ combo = 0
  /\ bestCombo > 0
  /\ \E i \in 1..Len(activeMoles) :
       /\ activeMoles[i].phase = "retreat"
       /\ ~activeMoles[i].wasHit
       /\ activeMoles[i].phaseElapsedMs = 0

\* the last checkpoint closed an interval without hits and without misses
C29_NoAttempts ==
  lastCheckpoint.atMs >= 0 /\ lastCheckpoint.hits + lastCheckpoint.misses = 0

C30_Ranges ==
  /\ tierProgress >= 0 /\ tierProgress <= 100000
  /\ skillEMA >= 0 /\ skillEMA <= Milli
  /\ lastCheckpoint.atMs >= 0 =>
       /\ lastCheckpoint.pi >= 0 /\ lastCheckpoint.pi <= Milli
       /\ lastCheckpoint.skill >= 0 /\ lastCheckpoint.skill <= Milli
       /\ lastCheckpoint.progressRated >= 0 /\ lastCheckpoint.progressRated <= 100000

\* a checkpoint of near-perfect play stops tier progress at 100
C30_Witness ==
  /\ lastCheckpoint.atMs >= 0
  /\ lastCheckpoint.progressBefore < 100000
  /\ lastCheckpoint.progressRated = 100000
  /\ tierProgress = 100000
  /\ lastCheckpoint.pi >= 800

\* C31 is about a spawn attempt that finds every cell occupied.  No such
\* attempt exists: at every spawn of every tick the targets on the board were
\* fewer than the ceiling, which is at most 3, and the board has 9 cells or
\* more, so that some cell was unoccupied and the attempt placed a target.
C31_BoardNeverFull ==
  /\ cells >= 9
  /\ Len(activeMoles) < cells
  /\ \A i \in 1..Len(tickSpawns) :
       /\ tickSpawns[i].activeBefore < tickSpawns[i].concurrentMax
       /\ tickSpawns[i].concurrentMax <= 3
       /\ Cardinality(tickSpawns[i].occupied) < cells

\* C32: while level-entry easing restricts the spawn cells, every new target
\* lands on a cell of the unlocked subset, unless every unlocked cell is
\* occupied.
C32_SpawnsInUnlocked ==
  \A i \in 1..Len(tickSpawns) :
    tickSpawns[i].unlocked.restricted =>
      \/ tickSpawns[i].cellIndex \in tickSpawns[i].unlocked.set
      \/ tickSpawns[i].unlocked.set \subseteq tickSpawns[i].occupied

\* a spawn on the 4 x 4 board of level 2 while fewer than its 16 cells are
\* unlocked and cell 0, a corner, is still locked
C32_Witness ==
  \E i \in 1..Len(tickSpawns) :
    /\ tickSpawns[i].unlocked.restricted
    /\ tickSpawns[i].level = 2
    /\ Cardinality(tickSpawns[i].unlocked.set) < 16
    /\ 0 \notin tickSpawns[i].unlocked.set
    /\ tickSpawns[i].cellIndex \in tickSpawns[i].unlocked.set

\* the unlock restriction of the present state
C33_Unlocked == getUnlockedSpawnCellSet(State)

\* the unlock restriction of the state a step leads to
C33_UnlockedAfter ==
  getUnlockedSpawnCellSet([State EXCEPT !.level = level',
                                        !.cells = cells',
                                        !.levelEaseFromLevel = levelEaseFromLevel',
                                        !.levelEaseElapsedMs = levelEaseElapsedMs',
                                        !.levelEaseDurationMs = levelEaseDurationMs'])

C33_Step ==
  /\ levelEaseFromLevel' # NoLevel =>
       levelEaseElapsedMs' < levelEaseDurationMs'
  /\ levelEaseFromLevel' # NoLevel /\ (levelEaseFromLevel = NoLevel \/ level' # level) =>
       /\ levelEaseElapsedMs' = 0
       /\ C33_UnlockedAfter.restricted
       /\ Cardinality(C33_UnlockedAfter.set) =
            LEVEL_CONFIGS(levelEaseFromLevel').grid * LEVEL_CONFIGS(levelEaseFromLevel').grid
  /\ levelEaseFromLevel # NoLevel /\ levelEaseFromLevel' = levelEaseFromLevel
       /\ level' = level =>
       /\ levelEaseElapsedMs' >= levelEaseElapsedMs
       /\ C33_UnlockedAfter.restricted => /\ C33_Unlocked.restricted
                                       /\ C33_Unlocked.set \subseteq C33_UnlockedAfter.set
  /\ levelEaseFromLevel # NoLevel /\ levelEaseFromLevel' = NoLevel
       /\ level' = level /\ elapsedMs' > 0 =>
       /\ levelEaseElapsedMs + (elapsedMs' - elapsedMs) >= levelEaseDurationMs
       /\ levelEaseElapsedMs' = 0
       /\ levelEaseDurationMs' = 0
       /\ ~C33_UnlockedAfter.restricted

\* C33: during level-entry easing the unlocked subset only grows: it starts
\* with as many cells as the grid of the previous level, the subset of an
\* earlier ease time is contained in that of a later one, a released
\* restriction does not come back, and when the ease time reaches the ease
\* duration the restriction is gone and the ease timer is cleared.
C33_UnlockedOnlyGrows == [][C33_Step]_vars

\* half-way through the easing of level 2: more than the 9 cells of level 1
\* and fewer than the 16 of level 2 are unlocked
C33_Witness ==
  /\ level = 2
  /\ levelEaseFromLevel = 1
  /\ C33_Unlocked.restricted
  /\ Cardinality(C33_Unlocked.set) > 9
  /\ Cardinality(C33_Unlocked.set) < 16

\* the grace duration of the level as the specification lists it
C34_GraceMs == CASE level = 2 -> 8000 [] level = 3 -> 5000 [] OTHER -> 3000

C34_Step ==
  /\ promotionState # "grace" /\ promotionState' = "grace" =>
       /\ promotionElapsedMs' = 0
       /\ stageTransitionLockMs' > 0
  /\ stageTransitionLockMs' > 0 =>
       /\ promotionState' = "grace"
       /\ promotionElapsedMs' = 0
  /\ promotionState = "grace" /\ promotionState' = "grace" =>
       /\ level' = level
       /\ promotionElapsedMs' < C34_GraceMs
       /\ promotionElapsedMs' =
            IF stageTransitionLockMs > 0 THEN promotionElapsedMs
            ELSE promotionElapsedMs + (elapsedMs' - elapsedMs)
  /\ promotionState = "grace" /\ promotionState' # "grace" /\ elapsedMs' > elapsedMs =>
       /\ stageTransitionLockMs = 0
       /\ promotionElapsedMs < C34_GraceMs
       /\ promotionElapsedMs + (elapsedMs' - elapsedMs) >= C34_GraceMs
       /\ promotionElapsedMs + (elapsedMs' - elapsedMs) < C34_GraceMs + 80
       /\ promotionState' = "none"
       /\ promotionTargetLevel' = NoLevel
       /\ promotionElapsedMs' = 0
       /\ level' = level

\* C34 (as amended): a commit opens the grace state with a grace time of 0
\* and the transition lock; the grace time stands still during the lock and
\* otherwise grows with the simulated clock, so the lock is over before any
\* grace time has passed; the level does not change in grace; and a running
\* match leaves grace on the first tick at which the grace time is the grace
\* duration of the level (8000 at level 2, 5000 at level 3, 3000 at levels
\* 4 to 7) or more, that is less than one tick (80 ms) after it, for the state
\* none with the target level cleared.
C34_GraceLastsItsDuration == [][C34_Step]_vars

\* level 3 just out of a grace that lasted 5040 ms: the entry easing, which
\* began with the grace, is as old
C34_Witness ==
  /\ level = 3
  /\ promotionState = "none"
  /\ promotionTargetLevel = NoLevel
  /\ levelEaseFromLevel = 2
  /\ levelEaseElapsedMs = 5040

C34_ClaimedStep ==
  promotionState = "grace" /\ promotionState' = "none" /\ elapsedMs' > elapsedMs =>
    promotionElapsedMs + (elapsedMs' - elapsedMs) = C34_GraceMs

\* C34 as stated: grace ends after exactly the grace duration of unlocked time
C34_AsClaimed == [][C34_ClaimedStep]_vars

C35_Step ==
  /\ stageTransitionLockMs' > 0 =>
       /\ promotionState' = "grace"
       /\ activeMoles' = <<>>
       /\ isRunning'
       /\ ~isPaused'
  /\ stageTransitionLockMs > 0 /\ budget'.pause # budget.pause =>
       State' = [State EXCEPT !.budget = budget']
  /\ stageTransitionLockMs = 0 /\ stageTransitionLockMs' > 0 =>
       /\ isRunning /\ ~isPaused
       /\ elapsedMs' > elapsedMs
       /\ promotionState = "pending"

\* C35: whenever the transition lock is set the match is running and not
\* paused, the promotion state is grace and no target is on the board; a pause
\* request during the lock changes nothing; and the lock is set only by a tick
\* of a running match that is not paused, the tick that commits a promotion.
C35_LockInvariant == [][C35_Step]_vars

\* inside the lock of the commit into level 2, which the script IntoLock ends
\* on, after the one pause request of that scenario: the request was made
\* inside the lock, and the match is not paused
C35_Witness ==
  /\ stageTransitionLockMs > 0
  /\ budget.script = <<>>
  /\ elapsedMs <= 26240 + HorizonMs \div 4
  /\ budget.ms <= HorizonMs \div 4
  /\ budget.pause = 0
  /\ budget.start = 0
  /\ ~isPaused

\* a target of the board that is a hazard and can be struck
C36_HazardUp ==
  \E i \in 1..Len(activeMoles) :
    /\ activeMoles[i].type = "bomb"
    /\ activeMoles[i].phase \in {"pop", "idle"}

C36_Step ==
  promotionState = "pending" /\ promotionState' = "pending" =>
    /\ elapsedMs' > elapsedMs =>
         /\ timeRemainingMs' >= timeRemainingMs
         /\ timeRemainingMs' > timeRemainingMs =>
              checkpointsDone' = checkpointsDone + 1
         /\ activeMoles # <<>> => activeMoles' # activeMoles
    /\ elapsedMs' = elapsedMs /\ timeRemainingMs' # timeRemainingMs =>
         /\ C36_HazardUp
         /\ intervalStats'.hits = intervalStats.hits + 1
         /\ timeRemainingMs' = Max(0, timeRemainingMs - 2000)

\* C36: on a step that begins and ends in the state pending, a tick does not
\* lower the time bank and raises it only together with a checkpoint, and
\* every target on the board is advanced by the tick; an input changes the
\* time bank only by striking a hazard, which costs 2000 ms.
C36_PendingKeepsTimeBank == [][C36_Step]_vars

\* inside the pending window a hazard that was spawned after the request has
\* been struck
C36_Witness ==
  /\ promotionState = "pending"
  /\ \E i \in 1..Len(activeMoles) :
       /\ activeMoles[i].type = "bomb"
       /\ activeMoles[i].spawnedAtMs > pendingSinceMs
       /\ activeMoles[i].wasHit

\* a frame of a running match that is not paused: it advances the clock, or it
\* is the first frame of the match, which records the timestamp only
C37_UnpausedTick ==
  /\ isRunning /\ ~isPaused
  /\ \/ elapsedMs' > elapsedMs
     \/ ~lastFrameKnown /\ lastFrameKnown' /\ elapsedMs' = elapsedMs

C37_Step ==
  sessionHits' = 0 =>
    /\ isRunning' \/ isGameOver' =>
         /\ level' = 1
         /\ promotionState' = "none"
         /\ timeRemainingMs' = Max(0, START_TIME_MS - elapsedMs')
         /\ isGameOver' <=> elapsedMs' >= START_TIME_MS
         /\ elapsedMs' < START_TIME_MS + MAX_FRAME_DELTA_MS
    /\ C37_UnpausedTick =>
         /\ timeRemainingMs' = Max(0, timeRemainingMs - (elapsedMs' - elapsedMs))
         /\ elapsedMs' > elapsedMs => timeRemainingMs' < timeRemainingMs

\* C37 (as amended): as long as no hit has been registered in a match, the
\* level is 1, no promotion is requested, the time bank is 45000 less the
\* simulated time (no bonus is ever added), every unpaused tick lowers it by
\* the simulated time the tick adds, strictly so when that is more than 0,
\* and the match is over exactly when the simulated time has reached 45000,
\* less than one tick after it did.
C37_IdleMatchRunsDown == [][C37_Step]_vars

\* a match without a hit that ended at 45040, after nine checkpoints and with
\* targets that timed out
C37_Witness ==
  /\ isGameOver
  /\ sessionHits = 0
  /\ timeoutMisses > 0
  /\ checkpointsDone = 9
  /\ elapsedMs = 45040
  /\ timeRemainingMs = 0

C37_ClaimedStep ==
  sessionHits' = 0 /\ C37_UnpausedTick => timeRemainingMs' < timeRemainingMs

\* C37 as stated: without a hit the time bank strictly decreases on every
\* unpaused tick
C37_AsClaimed == [][C37_ClaimedStep]_vars

C38_Step ==
  IF elapsedMs' < elapsedMs
  THEN level' = 1 /\ stageFloorLevel' = 1
  ELSE /\ stageFloorLevel' = Max(stageFloorLevel, level')
       /\ stageFloorLevel' >= level'
       /\ level >= 2 => level' >= 2
       /\ level' < level =>
            /\ level >= 3
            /\ level' = level - 1
            /\ checkpointsDone' = checkpointsDone + 1

\* C38: but for the restart of the match, which puts both to 1, every step
\* leaves stageFloorLevel at the larger of its value and the new level, so it
\* is the highest level of the match so far; a level of 2 or more does not
\* return to 1; and the level falls only at a checkpoint, from level 3 or
\* higher, by one.
C38_NeverBackToOne == [][C38_Step]_vars

\* level 2 after a demotion from level 3, at the fourth checkpoint since that
\* finds the player lagging: tier progress is at most 16, the streak of low
\* ratings is 4 or more, and the level stays 2
C38_Witness ==
  /\ level = 2
  /\ stageFloorLevel = 3
  /\ lastCheckpoint.level = 2
  /\ lastCheckpoint.levelAfter = 2
  /\ lastCheckpoint.streak >= 4
  /\ lastCheckpoint.progressRated <= 16000
  /\ lastCheckpoint.skill <= lastCheckpoint.targetPi - 220
  /\ lastCheckpoint.easing = NoLevel
  /\ lastCheckpoint.atMs > 25000

\* the targets of the board that have had no outcome yet
C39_Open == {i \in 1..Len(activeMoles) : activeMoles[i].phase \in {"pop", "idle"}}

C39_Step ==
  /\ \A j \in 1..Len(activeMoles') :
       /\ activeMoles'[j].phase = "hit" => activeMoles'[j].wasHit
       /\ activeMoles'[j].wasHit => activeMoles'[j].phase \in {"hit", "retreat"}
  /\ \A i \in 1..Len(activeMoles) : \A j \in 1..Len(activeMoles') :
       activeMoles[i].id = activeMoles'[j].id =>
         /\ activeMoles[i].phase \in {"hit", "retreat"} =>
              /\ activeMoles'[j].phase \in {"hit", "retreat"}
              /\ activeMoles'[j].wasHit = activeMoles[i].wasHit
         /\ ~activeMoles[i].wasHit /\ activeMoles'[j].wasHit =>
              /\ activeMoles'[j].phase = "hit"
              /\ sessionHits' = sessionHits + 1
  /\ elapsedMs' >= elapsedMs /\ elapsedMs' > 0 =>
       /\ sessionHits' - sessionHits =
            Cardinality({i \in C39_Open : \E j \in 1..Len(activeMoles') :
                           /\ activeMoles'[j].id = activeMoles[i].id
                           /\ activeMoles'[j].wasHit})
       /\ sessionHits' - sessionHits <= 1
       /\ timeoutMisses' >= timeoutMisses
       /\ timeoutMisses' - timeoutMisses <=
            Cardinality({i \in C39_Open : activeMoles[i].phase = "idle"})
       /\ sessionHits' = sessionHits \/ timeoutMisses' = timeoutMisses
  /\ sessionHits' + timeoutMisses' + Cardinality(C39_Open') <= moleSerial' - 1

\* C39: a target is struck only while it is in the pop or idle phase and
\* times out only from the idle phase; either takes it to the struck or exit
\* phase, which it does not leave again but for its removal, with its struck
\* flag unchanged; the flag is set exactly by the strike, a target in the
\* struck phase has it and a target that has it is in the struck or exit
\* phase; a step registers one hit for every target it strikes, at most one,
\* and at most one timeout miss for every target that was idle; and the hits
\* and timeout misses of a match plus the targets still without an outcome
\* never exceed the targets spawned.
C39_OneOutcomePerTarget == [][C39_Step]_vars

\* a match with hits and timeout misses in which every target spawned has had
\* exactly one outcome, one struck target being on its way out
C39_Witness ==
  /\ sessionHits >= 2
  /\ timeoutMisses >= 1
  /\ sessionHits + timeoutMisses = moleSerial - 1
  /\ \E i \in 1..Len(activeMoles) :
       activeMoles[i].wasHit /\ activeMoles[i].phase = "retreat"

\* hits / attempts of an interval in thousandths, 0 without attempts
C40_Accuracy(stats) ==
  IF stats.hits + stats.misses > 0
  THEN (stats.hits * 1000) \div (stats.hits + stats.misses) ELSE 0

C40_Step ==
  \A id \in struckNow({"normal", "gold", "bomb", "ice"}) :
    /\ elapsedMs' = elapsedMs
    /\ elapsedMs >= moleOf(activeMoles, id).spawnedAtMs
    /\ intervalStats'.hits = intervalStats.hits + 1
    /\ intervalStats'.reactionCount = intervalStats.reactionCount + 1
    /\ intervalStats'.reactionTotalMs =
         intervalStats.reactionTotalMs + (elapsedMs - moleOf(activeMoles, id).spawnedAtMs)
    /\ intervalStats'.misses = intervalStats.misses
    /\ C40_Accuracy(intervalStats') >= C40_Accuracy(intervalStats)
    /\ C40_Accuracy(intervalStats) < 1000 =>
         C40_Accuracy(intervalStats') > C40_Accuracy(intervalStats)

\* C40: every strike of a target, a hazard included, adds exactly 1 to the
\* hits and to the reaction samples of the interval and adds the simulated
\* time since the target was spawned, which is not negative, to the reaction
\* total, and leaves the misses alone; the accuracy of the interval does not
\* fall by it and rises unless it was 1 already.
C40_EveryHitCounts == [][C40_Step]_vars

\* a hazard just struck in an interval that has a miss: the strike is among
\* the hits and the reaction samples of the interval
C40_Witness ==
  /\ intervalStats.hits >= 1
  /\ intervalStats.misses >= 1
  /\ intervalStats.reactionCount = intervalStats.hits
  /\ intervalStats.reactionTotalMs > 0
  /\ \E i \in 1..Len(activeMoles) :
       /\ activeMoles[i].type = "bomb"
       /\ activeMoles[i].phase = "hit"
       /\ activeMoles[i].phaseElapsedMs = 0

====
